---------------------------- MODULE Spec2Model ----------------------------
(***************************************************************************)
(* The server-side game store of the multiplayer soccer game               *)
(* (src/unnamed/part_002, imported by the routes as "@/lib/game-store"):   *)
(* the stored room and players of one room, the requests joinRoom,         *)
(* leaveRoom, handleInput and updateGame, and the frame loop of            *)
(* updateGame.  Every request reads the room and the players from the      *)
(* store, works on its own copies and writes them back; the requests are   *)
(* modelled as processes that take one step per store access, so that they *)
(* can be run one at a time (Spec, SpecPoll) or overlapping (SpecConc).     *)
(*                                                                         *)
(* Numbers.  The program computes in JavaScript doubles.  Lengths and      *)
(* velocities are modelled in fixed point, Unit steps to the pixel, and    *)
(* products are truncated towards zero; times are whole milliseconds.      *)
(* Fields that feed no decision of the store (name, animFrame, lastUpdate) *)
(* are left out of the records.                                            *)
(***************************************************************************)
EXTENDS Integers, Sequences, FiniteSets, TLC

VARIABLES
    now,          \* Date.now(), in ms
    roomStore,    \* redis key soccer:room:<id>: the stored room, or NoRoom
    playerStore,  \* redis hash soccer:room:players:<id>, in field order
    ug,           \* the updateGame call in flight; between calls, when the
                  \* last one was made and whether the time guard ended it
    hi,           \* the handleInput call in flight
    lv,           \* the leaveRoom call in flight
    budget,       \* requests and polls started so far (bounds the model)
    hist,         \* history of the run, read by the properties only
    client        \* the game loop of a solo or local match in the browser

vars == <<now, roomStore, playerStore, ug, hi, lv, budget, hist, client>>

---------------------------------------------------------------------------
\* Bounds of the model.

MaxReq == 1          \* requests that change the store (Spec); every input or leave (SpecConc)
MaxTicks == 2        \* updateGame calls (Spec)
MaxPolls == 4        \* updateGame calls (SpecPoll)
MaxConcTicks == 1    \* updateGame calls (SpecConc)

PlayerIds == {"h1", "a1", "h2"}
Teams == {"home", "away"}
NoOwner == "null"                 \* ball.ownerId = null, lastGoalTeam = null
DTs == {10, 33, 200}              \* ms between two polls
RandVals == {-300, 250}           \* (Math.random() - 0.5) * 6, in fixed point

---------------------------------------------------------------------------
\* Program constants (part_002 lines 55-65), lengths in fixed point.

Unit == 100
FIELD_WIDTH == 800 * Unit
FIELD_HEIGHT == 500 * Unit
GOAL_HEIGHT == 150 * Unit
PLAYER_SIZE == 24 * Unit
BALL_SIZE == 12 * Unit
PLAYER_SPEED == (35 * Unit) \div 10
SHOOT_POWER == 14 * Unit
PASS_POWER == 9 * Unit
SLIDE_SPEED == 7 * Unit
SLIDE_DURATION == 25
CELEBRATION == 150
MAX_CATCHUP == 10
MIN_DELTA_MS == 16
TICK_CENTI_MS == 1667             \* 16.67 ms, in hundredths
GAME_SECONDS == 180

---------------------------------------------------------------------------
\* Arithmetic.

Abs(a) == IF a < 0 THEN -a ELSE a
Min(a, b) == IF a < b THEN a ELSE b
Max(a, b) == IF a > b THEN a ELSE b
Clamp(lo, hi_, v) == Max(lo, Min(hi_, v))

\* a * n / d, truncated towards zero (the product of a double by n/d).
MulDiv(a, n, d) == IF a >= 0 THEN (a * n) \div d ELSE -(((-a) * n) \div d)

\* Math.sqrt on a non-negative integer, rounded down.
RECURSIVE SqrtBetween(_, _, _)
SqrtBetween(n, lo, up) ==
    IF lo >= up THEN lo
    ELSE LET mid == (lo + up + 1) \div 2
         IN  IF mid * mid <= n THEN SqrtBetween(n, mid, up)
             ELSE SqrtBetween(n, lo, mid - 1)
ISqrt(n) == SqrtBetween(n, 0, 40000)

\* Math.sqrt(dx*dx + dy*dy) < r, for dx, dy, r in fixed point.
DistLess(dx, dy, r) ==
    /\ Abs(dx) < r
    /\ Abs(dy) < r
    /\ dx * dx + dy * dy < r * r

\* v || d : JavaScript's || on a number.
OrDefault(v, d) == IF v = 0 THEN d ELSE v

\* The element of a one-element set.  { F(v) : v \in {e} } hands the value
\* of e to F, computed once.
The(S) == CHOOSE v \in S : TRUE

---------------------------------------------------------------------------
\* Records.

NoRoom == [absent |-> TRUE]       \* redis.get gives null

createInitialBall ==
    [x |-> FIELD_WIDTH \div 2, y |-> FIELD_HEIGHT \div 2,
     velocityX |-> 0, velocityY |-> 0, ownerId |-> NoOwner, isGrabbed |-> FALSE]

getInitialPlayerPosition(team, playerIndex, isGoalkeeper) ==
    IF isGoalkeeper
    THEN [x |-> IF team = "home" THEN 50 * Unit ELSE FIELD_WIDTH - 50 * Unit,
          y |-> FIELD_HEIGHT \div 2]
    ELSE LET slot == playerIndex % 4
             sx == IF slot < 2 THEN 150 * Unit ELSE 300 * Unit
             sy == CASE slot = 0 -> 150 * Unit
                     [] slot = 1 -> 350 * Unit
                     [] slot = 2 -> 200 * Unit
                     [] OTHER    -> 300 * Unit
         IN  [x |-> IF team = "home" THEN sx ELSE FIELD_WIDTH - sx, y |-> sy]

\* serializeBall: x and y fall back to the field centre, the velocities to 0.
serializeBall(ball) ==
    [x |-> OrDefault(ball.x, FIELD_WIDTH \div 2),
     y |-> OrDefault(ball.y, FIELD_HEIGHT \div 2),
     velocityX |-> OrDefault(ball.velocityX, 0),
     velocityY |-> OrDefault(ball.velocityY, 0),
     ownerId |-> ball.ownerId,
     isGrabbed |-> ball.isGrabbed]

\* serializeRoom, evaluated when Date.now() = t.
serializeRoom(room, t) ==
    [ball |-> serializeBall(room.ball),
     score |-> [home |-> OrDefault(room.score.home, 0),
                away |-> OrDefault(room.score.away, 0)],
     gameTime |-> OrDefault(room.gameTime, 0),
     isPlaying |-> room.isPlaying,
     lastGoalTeam |-> room.lastGoalTeam,
     goalCelebration |-> OrDefault(room.goalCelebration, 0),
     lastTick |-> OrDefault(room.lastTick, t),
     createdAt |-> OrDefault(room.createdAt, t)]

\* serializePlayer, evaluated when Date.now() = t.
serializePlayer(player, t) ==
    [id |-> player.id,
     x |-> OrDefault(player.x, 0),
     y |-> OrDefault(player.y, 0),
     team |-> IF player.team = "away" THEN "away" ELSE "home",
     isGoalkeeper |-> player.isGoalkeeper,
     hasBall |-> player.hasBall,
     isSliding |-> player.isSliding,
     slideTimer |-> OrDefault(player.slideTimer, 0),
     grabTimer |-> OrDefault(player.grabTimer, 0),
     velocityX |-> OrDefault(player.velocityX, 0),
     velocityY |-> OrDefault(player.velocityY, 0),
     facingX |-> OrDefault(player.facingX, Unit),
     facingY |-> OrDefault(player.facingY, 0),
     lastUpdate |-> OrDefault(player.lastUpdate, t)]

\* parseRoom of a stored room, evaluated when Date.now() = t.
parseRoom(obj, t) ==
    [ball |-> [x |-> OrDefault(obj.ball.x, FIELD_WIDTH \div 2),
               y |-> OrDefault(obj.ball.y, FIELD_HEIGHT \div 2),
               velocityX |-> OrDefault(obj.ball.velocityX, 0),
               velocityY |-> OrDefault(obj.ball.velocityY, 0),
               ownerId |-> obj.ball.ownerId,
               isGrabbed |-> obj.ball.isGrabbed],
     score |-> [home |-> OrDefault(obj.score.home, 0),
                away |-> OrDefault(obj.score.away, 0)],
     gameTime |-> OrDefault(obj.gameTime, GAME_SECONDS),
     isPlaying |-> obj.isPlaying # FALSE,
     lastGoalTeam |-> obj.lastGoalTeam,
     goalCelebration |-> OrDefault(obj.goalCelebration, 0),
     lastTick |-> OrDefault(obj.lastTick, t),
     createdAt |-> OrDefault(obj.createdAt, t)]

\* parsePlayer of a stored player, evaluated when Date.now() = t.
parsePlayer(obj, t) ==
    [id |-> obj.id,
     x |-> OrDefault(obj.x, 0),
     y |-> OrDefault(obj.y, 0),
     team |-> IF obj.team = "away" THEN "away" ELSE "home",
     isGoalkeeper |-> obj.isGoalkeeper,
     hasBall |-> obj.hasBall,
     isSliding |-> obj.isSliding,
     slideTimer |-> OrDefault(obj.slideTimer, 0),
     grabTimer |-> OrDefault(obj.grabTimer, 0),
     velocityX |-> OrDefault(obj.velocityX, 0),
     velocityY |-> OrDefault(obj.velocityY, 0),
     facingX |-> OrDefault(obj.facingX, Unit),
     facingY |-> OrDefault(obj.facingY, 0),
     lastUpdate |-> OrDefault(obj.lastUpdate, t)]

---------------------------------------------------------------------------
\* The store.  A players map is a sequence of player records in the order
\* of the hash fields, which is the order Map.forEach visits them in.

Ids(players) == {players[i].id : i \in 1..Len(players)}
IndexOf(players, id) ==
    IF id \in Ids(players)
    THEN CHOOSE i \in 1..Len(players) : players[i].id = id
    ELSE 0

\* getRoom: the parsed room, or NoRoom.
getRoom(store, t) == IF store = NoRoom THEN NoRoom ELSE parseRoom(store, t)

\* getPlayers: every stored player, parsed.
getPlayers(store, t) == [i \in 1..Len(store) |-> parsePlayer(store[i], t)]

\* saveRoom: the value redis.set stores.
saveRoom(room, t) == serializeRoom(room, t)

\* savePlayer: redis.hset of the player's field (an existing field keeps
\* its place, a new one is added at the end).
savePlayer(store, player, t) ==
    LET i == IndexOf(store, player.id)
    IN  IF i = 0 THEN Append(store, serializePlayer(player, t))
        ELSE [store EXCEPT ![i] = serializePlayer(player, t)]

\* removePlayer: redis.hdel of the player's field.
removePlayer(store, playerId) ==
    SelectSeq(store, LAMBDA p : p.id # playerId)

\* createRoom: the new room.
createRoom(t) ==
    [ball |-> createInitialBall,
     score |-> [home |-> 0, away |-> 0],
     gameTime |-> GAME_SECONDS,
     isPlaying |-> TRUE,
     lastGoalTeam |-> NoOwner,
     goalCelebration |-> 0,
     lastTick |-> t,
     createdAt |-> t]

TeamCount(players, team) ==
    Cardinality({i \in 1..Len(players) : players[i].team = team})

\* The player record joinRoom builds for a new player.
NewPlayer(players, playerId, team, t) ==
    LET count == TeamCount(players, team)
        isGoalkeeper == count = 0
        pos == getInitialPlayerPosition(team, count, isGoalkeeper)
    IN  [id |-> playerId, x |-> pos.x, y |-> pos.y, team |-> team,
         isGoalkeeper |-> isGoalkeeper, hasBall |-> FALSE,
         isSliding |-> FALSE, slideTimer |-> 0, grabTimer |-> 0,
         velocityX |-> 0, velocityY |-> 0,
         facingX |-> IF team = "home" THEN Unit ELSE -Unit, facingY |-> 0,
         lastUpdate |-> t]

\* Variant of TeamFull that lets a sixth player in.
TeamFullAtSix(players, team) == TeamCount(players, team) > 5

\* joinRoom's capacity check: 5 per team.
TeamFull(players, team) == TeamCount(players, team) >= 5

\* Variant of Released that leaves the ball with its owner.
ReleasedNot(room) == room

\* The room after the ball is released: leaveRoom (lines 431-432) and
\* getRoomList (lines 342-343).
Released(room) ==
    [room EXCEPT !.ball.ownerId = NoOwner, !.ball.isGrabbed = FALSE]

INACTIVE_MS == 15000
ROOM_IDLE_MS == 30 * 60 * 1000

\* getRoomList's loop over the players it read (lines 335-347), from the
\* i-th on: st is the room in memory and the store.
RECURSIVE RemoveInactive(_, _, _, _)
RemoveInactive(st, players, i, t) ==
    IF i > Len(players) THEN st
    ELSE IF t - players[i].lastUpdate > INACTIVE_MS
    THEN The({RemoveInactive(next, players, i + 1, t) :
           next \in {IF players[i].hasBall
                     THEN [room |-> Released(st.room),
                           roomStore |-> saveRoom(Released(st.room), t),
                           players |-> removePlayer(st.players, players[i].id)]
                     ELSE [st EXCEPT !.players = removePlayer(@, players[i].id)]}})
    ELSE RemoveInactive(st, players, i + 1, t)

\* getRoomList (lines 302-363), for the one room: the store after it.
getRoomList(stored, storedPlayers, t) ==
    LET room == getRoom(stored, t)
    IN  IF room = NoRoom THEN [roomStore |-> stored, players |-> storedPlayers]
        ELSE IF t - room.lastTick > ROOM_IDLE_MS
        THEN [roomStore |-> NoRoom, players |-> <<>>]
        ELSE The({[roomStore |-> done.roomStore, players |-> done.players] :
               done \in {RemoveInactive([room |-> room, roomStore |-> stored,
                                         players |-> storedPlayers],
                                        getPlayers(storedPlayers, t), 1, t)}})

---------------------------------------------------------------------------
\* handleInput (part_002 lines 463-542), on the copies it read.  Each stage
\* takes and gives the pair s = [room, player].

\* d / Math.sqrt(dx*dx + dy*dy) for dx, dy in -1..1 not both 0.
Normalized(d, dx, dy) ==
    (d * Unit * Unit) \div ISqrt((dx * dx + dy * dy) * Unit * Unit)

InputMove(s, input) ==
    IF input.dx # 0 \/ input.dy # 0
    THEN LET fx == Normalized(input.dx, input.dx, input.dy)
             fy == Normalized(input.dy, input.dx, input.dy)
             faced == [s.player EXCEPT !.facingX = fx, !.facingY = fy]
         IN  [s EXCEPT !.player =
                IF faced.isSliding THEN faced
                ELSE [faced EXCEPT
                        !.velocityX = MulDiv(fx, PLAYER_SPEED, Unit),
                        !.velocityY = MulDiv(fy, PLAYER_SPEED, Unit)]]
    ELSE s

\* Variant of InputShoot that leaves the ball with its owner.
InputShootKeepsOwner(s, input) ==
    IF input.shoot /\ s.player.hasBall
    THEN [room |-> [s.room EXCEPT
                      !.ball.velocityX = MulDiv(s.player.facingX, SHOOT_POWER, Unit),
                      !.ball.velocityY = MulDiv(s.player.facingY, SHOOT_POWER, Unit)],
          player |-> [s.player EXCEPT !.hasBall = FALSE]]
    ELSE s

\* The shot (lines 495-502).
InputShoot(s, input) ==
    IF input.shoot /\ s.player.hasBall
    THEN [room |-> [s.room EXCEPT
                      !.ball.ownerId = NoOwner,
                      !.ball.isGrabbed = FALSE,
                      !.ball.velocityX = MulDiv(s.player.facingX, SHOOT_POWER, Unit),
                      !.ball.velocityY = MulDiv(s.player.facingY, SHOOT_POWER, Unit)],
          player |-> [s.player EXCEPT !.hasBall = FALSE]]
    ELSE s

\* Distances of findNearestTeammate and of the pass, in tenths of a pixel.
PassDist(dx, dy) ==
    LET ex == MulDiv(dx, 10, Unit)
        ey == MulDiv(dy, 10, Unit)
    IN  ISqrt(ex * ex + ey * ey)

\* findNearestTeammate: the index of the nearest teammate in players, 0 when
\* there is none.  A teammate ahead counts 0.6 of its distance, one behind
\* 1.4; of two equally near the first visited wins.
findNearestTeammate(players, fromPlayer) ==
    LET mates == {i \in 1..Len(players) :
                    /\ players[i].id # fromPlayer.id
                    /\ players[i].team = fromPlayer.team}
        adjustedDist(i) ==
            LET dx == players[i].x - fromPlayer.x
                dy == players[i].y - fromPlayer.y
                dotProduct == dx * fromPlayer.facingX + dy * fromPlayer.facingY
            IN  IF dotProduct > 0 THEN PassDist(dx, dy) * 6
                ELSE PassDist(dx, dy) * 14
    IN  IF mates = {} THEN 0
        ELSE CHOOSE i \in mates :
                \A j \in mates :
                    \/ adjustedDist(i) < adjustedDist(j)
                    \/ adjustedDist(i) = adjustedDist(j) /\ i <= j

InputPass(s, players, input) ==
    LET mate == findNearestTeammate(players, s.player)
    IN  IF input.pass /\ s.player.hasBall /\ mate # 0
        THEN LET tdx == players[mate].x - s.player.x
                 tdy == players[mate].y - s.player.y
                 dist == PassDist(tdx, tdy)
                 released == [s.room EXCEPT !.ball.ownerId = NoOwner,
                                            !.ball.isGrabbed = FALSE]
             IN  [room |-> IF dist > 0
                           THEN [released EXCEPT
                                   !.ball.velocityX = MulDiv(tdx, (PASS_POWER * 10) \div Unit, dist),
                                   !.ball.velocityY = MulDiv(tdy, (PASS_POWER * 10) \div Unit, dist)]
                           ELSE released,
                  player |-> [s.player EXCEPT !.hasBall = FALSE]]
        ELSE s

\* Variant of InputSlide that lets a sliding player start over.
InputSlideRestarts(s, input) ==
    IF input.slide /\ ~s.player.hasBall
    THEN [s EXCEPT !.player.isSliding = TRUE, !.player.slideTimer = SLIDE_DURATION]
    ELSE s

\* The slide (lines 521-525).
InputSlide(s, input) ==
    IF input.slide /\ ~s.player.isSliding /\ ~s.player.hasBall
    THEN [s EXCEPT !.player.isSliding = TRUE, !.player.slideTimer = SLIDE_DURATION]
    ELSE s

\* Variant of GrabAllowed that does not look at the ball's owner.
GrabAllowedAnyOwner(room, player, input) ==
    input.grab /\ player.isGoalkeeper

\* Variant of GrabAllowed that lets any player grab.
GrabAllowedAnyPlayer(room, player, input) ==
    input.grab /\ room.ball.ownerId = NoOwner

\* The grab's conditions on the player and the ball's owner.
GrabAllowed(room, player, input) ==
    input.grab /\ player.isGoalkeeper /\ room.ball.ownerId = NoOwner

GRAB_RADIUS == (PLAYER_SIZE * 25) \div 10

InputGrab(s, input) ==
    IF /\ GrabAllowed(s.room, s.player, input)
       /\ DistLess(s.player.x - s.room.ball.x, s.player.y - s.room.ball.y, GRAB_RADIUS)
    THEN [room |-> [s.room EXCEPT !.ball.ownerId = s.player.id,
                                  !.ball.isGrabbed = TRUE],
          player |-> [s.player EXCEPT !.hasBall = TRUE]]
    ELSE s

\* handleInput between its reads and its writes: the room and the player it
\* will save.  players is the map it read; the player is in it.
handleInput(room, players, playerId, input, t) ==
    LET i == IndexOf(players, playerId)
    IN  The({InputGrab(s4, input) :
          s4 \in {InputSlide(s3, input) :
            \* the map holds the player object itself: the pass sees its facing
            s3 \in {InputPass(s2, [players EXCEPT ![i] = s2.player], input) :
              s2 \in {InputShoot(s1, input) :
                s1 \in {InputMove([room |-> room,
                                   player |-> [players[i] EXCEPT !.lastUpdate = t]],
                                  input)}}}}})

---------------------------------------------------------------------------
\* One frame of updateGame's loop (part_002 lines 590-717).

\* Variant of Celebrating without the celebration gate.
CelebratingNever(room) == FALSE

\* The celebration gate.
Celebrating(room) == room.goalCelebration > 0

\* The clock: seconds left, from the room's age.
ClockStage(room, t) ==
    IF room.gameTime > 0
    THEN [room EXCEPT !.gameTime =
            Max(0, GAME_SECONDS - ((t - room.createdAt) \div 1000))]
    ELSE room

\* Variant of MovePlayer without the clamp to the field.
MovePlayerUnclamped(player) ==
    LET slid ==
            IF player.isSliding
            THEN IF player.slideTimer - 1 <= 0
                 THEN [player EXCEPT !.slideTimer = @ - 1, !.isSliding = FALSE]
                 ELSE [player EXCEPT
                         !.slideTimer = @ - 1,
                         !.x = @ + MulDiv(player.facingX, SLIDE_SPEED, Unit),
                         !.y = @ + MulDiv(player.facingY, SLIDE_SPEED, Unit)]
            ELSE player
    IN  [slid EXCEPT
           !.x = slid.x + slid.velocityX,
           !.y = slid.y + slid.velocityY,
           !.velocityX = MulDiv(@, 88, 100),
           !.velocityY = MulDiv(@, 88, 100)]

\* Slide, integrate, damp, clamp: one player.
MovePlayer(player) ==
    LET slid ==
            IF player.isSliding
            THEN IF player.slideTimer - 1 <= 0
                 THEN [player EXCEPT !.slideTimer = @ - 1, !.isSliding = FALSE]
                 ELSE [player EXCEPT
                         !.slideTimer = @ - 1,
                         !.x = @ + MulDiv(player.facingX, SLIDE_SPEED, Unit),
                         !.y = @ + MulDiv(player.facingY, SLIDE_SPEED, Unit)]
            ELSE player
    IN  [slid EXCEPT
           !.x = Clamp(PLAYER_SIZE, FIELD_WIDTH - PLAYER_SIZE, slid.x + slid.velocityX),
           !.y = Clamp(PLAYER_SIZE, FIELD_HEIGHT - PLAYER_SIZE, slid.y + slid.velocityY),
           !.velocityX = MulDiv(@, 88, 100),
           !.velocityY = MulDiv(@, 88, 100)]

FOLLOW_OFFSET == PLAYER_SIZE \div 2 + BALL_SIZE \div 2 + 2 * Unit

\* Possession follow and the goalkeeper's hold: the ball after one player.
FollowBall(ball, player) ==
    LET atFeet ==
            IF player.hasBall /\ ~ball.isGrabbed
            THEN [ball EXCEPT
                    !.x = player.x + MulDiv(player.facingX, FOLLOW_OFFSET, Unit),
                    !.y = player.y + MulDiv(player.facingY, FOLLOW_OFFSET, Unit),
                    !.velocityX = 0,
                    !.velocityY = 0,
                    !.ownerId = player.id]
            ELSE ball
    IN  IF player.isGoalkeeper /\ player.hasBall /\ atFeet.isGrabbed
        THEN [atFeet EXCEPT !.x = player.x,
                            !.y = player.y - PLAYER_SIZE \div 2 - BALL_SIZE]
        ELSE atFeet

RECURSIVE FollowAll(_, _, _)
FollowAll(ball, players, i) ==
    IF i > Len(players) THEN ball
    ELSE FollowAll(FollowBall(ball, players[i]), players, i + 1)

\* The goal test: the team that scores with the ball here, or NoOwner.
GoalTest(ball) ==
    LET goalTop == FIELD_HEIGHT \div 2 - GOAL_HEIGHT \div 2
        goalBottom == FIELD_HEIGHT \div 2 + GOAL_HEIGHT \div 2
        inMouth == ball.y > goalTop /\ ball.y < goalBottom
    IN  IF ball.x < 25 * Unit /\ inMouth THEN "away"
        ELSE IF ball.x > FIELD_WIDTH - 25 * Unit /\ inMouth THEN "home"
        ELSE NoOwner

\* The loose ball: integrate, friction, top and bottom walls.
MoveBall(ball) ==
    LET moved == [ball EXCEPT !.x = @ + ball.velocityX,
                              !.y = @ + ball.velocityY,
                              !.velocityX = MulDiv(@, 98, 100),
                              !.velocityY = MulDiv(@, 98, 100)]
    IN  IF moved.y < BALL_SIZE \/ moved.y > FIELD_HEIGHT - BALL_SIZE
        THEN [moved EXCEPT !.velocityY = -MulDiv(@, 80, 100),
                           !.y = Clamp(BALL_SIZE, FIELD_HEIGHT - BALL_SIZE, @)]
        ELSE moved

\* The side walls.
SideWalls(ball) ==
    IF ball.x < BALL_SIZE \/ ball.x > FIELD_WIDTH - BALL_SIZE
    THEN [ball EXCEPT !.velocityX = -MulDiv(@, 80, 100),
                      !.x = Clamp(BALL_SIZE, FIELD_WIDTH - BALL_SIZE, @)]
    ELSE ball

\* The room after a goal of team.
ScoreGoal(room, team) ==
    [room EXCEPT !.score[team] = @ + 1,
                 !.lastGoalTeam = team,
                 !.goalCelebration = CELEBRATION]

PICKUP_RADIUS == PLAYER_SIZE \div 2 + BALL_SIZE \div 2 + 4 * Unit

\* Whether the pickup loop passes this player by.
PickupSkips(player, ball) == player.hasBall \/ ball.ownerId # NoOwner

\* Variant of PickupIndex that gives the ball to the last player in order.
PickupIndexLast(ball, players) ==
    LET near == {i \in 1..Len(players) :
                   /\ ~PickupSkips(players[i], ball)
                   /\ DistLess(players[i].x - ball.x, players[i].y - ball.y, PICKUP_RADIUS)}
    IN  IF near = {} THEN 0 ELSE CHOOSE i \in near : \A j \in near : i >= j

\* The pickup loop: the first player in order that may pick up and is near.
PickupIndex(ball, players) ==
    LET near == {i \in 1..Len(players) :
                   /\ ~PickupSkips(players[i], ball)
                   /\ DistLess(players[i].x - ball.x, players[i].y - ball.y, PICKUP_RADIUS)}
    IN  IF near = {} THEN 0 ELSE CHOOSE i \in near : \A j \in near : i <= j

TACKLE_RADIUS == (PLAYER_SIZE * 18) \div 10

\* Variant of TackleTargets in which a slide dispossesses teammates too.
TackleTargetsAnyTeam(players) ==
    {t \in 1..Len(players) :
        /\ players[t].hasBall
        /\ \E k \in 1..Len(players) :
              /\ players[k].isSliding
              /\ players[k].id # players[t].id
              /\ DistLess(players[k].x - players[t].x,
                          players[k].y - players[t].y, TACKLE_RADIUS)}

\* The ball holders a sliding opponent dispossesses in this frame.
TackleTargets(players) ==
    {t \in 1..Len(players) :
        /\ players[t].hasBall
        /\ \E k \in 1..Len(players) :
              /\ players[k].isSliding
              /\ players[k].id # players[t].id
              /\ players[k].team # players[t].team
              /\ DistLess(players[k].x - players[t].x,
                          players[k].y - players[t].y, TACKLE_RADIUS)}

\* The state of a call: loc = [room, players, needsReset].  Inside a frame
\* skip tells that the frame has ended early (a continue).

\* The celebration gate; then the clock and the players with the ball at
\* the holder's feet.
FrameMove(loc, t) ==
    IF Celebrating(loc.room)
    THEN [room |-> [loc.room EXCEPT !.goalCelebration = @ - 1],
          players |-> loc.players,
          needsReset |-> loc.needsReset \/ loc.room.goalCelebration - 1 = 0,
          skip |-> TRUE]
    ELSE The({[room |-> [ClockStage(loc.room, t) EXCEPT
                           !.ball = FollowAll(loc.room.ball, moved, 1)],
               players |-> moved,
               needsReset |-> loc.needsReset,
               skip |-> FALSE] :
              moved \in {[i \in 1..Len(loc.players) |-> MovePlayer(loc.players[i])]}})

\* Variant of FrameBall that moves and tests the ball whoever owns it.
FrameBallAnyOwner(f) ==
    IF f.skip THEN f
    ELSE The({IF GoalTest(rolled) # NoOwner
              THEN [f EXCEPT !.room = ScoreGoal([f.room EXCEPT !.ball = rolled],
                                                GoalTest(rolled)),
                             !.skip = TRUE]
              ELSE [f EXCEPT !.room.ball = SideWalls(rolled)] :
              rolled \in {MoveBall(f.room.ball)}})

\* Variant of FrameBall in which a goal does not end the frame.
FrameBallGoesOn(f) ==
    IF f.skip \/ f.room.ball.ownerId # NoOwner THEN f
    ELSE The({IF GoalTest(rolled) # NoOwner
              THEN [f EXCEPT !.room = ScoreGoal([f.room EXCEPT !.ball = SideWalls(rolled)],
                                                GoalTest(rolled))]
              ELSE [f EXCEPT !.room.ball = SideWalls(rolled)] :
              rolled \in {MoveBall(f.room.ball)}})

\* The loose ball: physics, the goal test, the side walls.
FrameBall(f) ==
    IF f.skip \/ f.room.ball.ownerId # NoOwner THEN f
    ELSE The({IF GoalTest(rolled) # NoOwner
              THEN [f EXCEPT !.room = ScoreGoal([f.room EXCEPT !.ball = rolled],
                                                GoalTest(rolled)),
                             !.skip = TRUE]
              ELSE [f EXCEPT !.room.ball = SideWalls(rolled)] :
              rolled \in {MoveBall(f.room.ball)}})

\* The pickup.
FramePickup(f) ==
    IF f.skip THEN f
    ELSE The({IF pick = 0 THEN f
              ELSE [f EXCEPT !.room.ball.ownerId = f.players[pick].id,
                             !.room.ball.isGrabbed = FALSE,
                             !.players[pick].hasBall = TRUE] :
              pick \in {PickupIndex(f.room.ball, f.players)}})

\* Variant of FrameTackle that leaves the ball's owner in place.
FrameTackleKeepsOwner(f, rnd) ==
    The({[room |-> IF hit = {} THEN f.room
                   ELSE [f.room EXCEPT !.ball.isGrabbed = FALSE,
                                       !.ball.velocityX = rnd[1],
                                       !.ball.velocityY = rnd[2]],
          players |-> [i \in 1..Len(f.players) |->
                         IF i \in hit THEN [f.players[i] EXCEPT !.hasBall = FALSE]
                         ELSE f.players[i]],
          needsReset |-> f.needsReset] :
         hit \in {IF f.skip THEN {} ELSE TackleTargets(f.players)}})

\* The slide tackles; rnd is the pair the last tackle draws.
FrameTackle(f, rnd) ==
    The({[room |-> IF hit = {} THEN f.room
                   ELSE [f.room EXCEPT !.ball.ownerId = NoOwner,
                                       !.ball.isGrabbed = FALSE,
                                       !.ball.velocityX = rnd[1],
                                       !.ball.velocityY = rnd[2]],
          players |-> [i \in 1..Len(f.players) |->
                         IF i \in hit THEN [f.players[i] EXCEPT !.hasBall = FALSE]
                         ELSE f.players[i]],
          needsReset |-> f.needsReset] :
         hit \in {IF f.skip THEN {} ELSE TackleTargets(f.players)}})

\* The frame up to the tackles.
FrameToPickup(loc, t) ==
    The({FramePickup(b) : b \in {FrameBall(a) : a \in {FrameMove(loc, t)}}})

\* The draws of Math.random() the frame's tackles can make.  The tackles of
\* one call draw the same pair: drawn is <<>> before the call's first
\* tackle and <<pair>> after it.
FrameDraws(f, drawn) ==
    IF ~f.skip /\ TackleTargets(f.players) # {} /\ drawn = <<>>
    THEN {<<rnd>> : rnd \in RandVals \X RandVals}
    ELSE {drawn}

\* One whole frame.
Frame(loc, t, rnd) ==
    The({FrameTackle(f, rnd) : f \in {FrameToPickup(loc, t)}})

\* resetPositions: the kickoff.
RECURSIVE ResetFrom(_, _, _, _)
ResetFrom(players, i, homeIndex, awayIndex) ==
    IF i > Len(players) THEN players
    ELSE LET player == players[i]
             index == IF player.team = "home" THEN homeIndex ELSE awayIndex
             isGoalkeeper == index = 0
             pos == getInitialPlayerPosition(player.team, index, isGoalkeeper)
             placed == [player EXCEPT
                          !.isGoalkeeper = isGoalkeeper,
                          !.x = pos.x, !.y = pos.y,
                          !.hasBall = FALSE, !.isSliding = FALSE, !.slideTimer = 0,
                          !.velocityX = 0, !.velocityY = 0,
                          !.facingX = IF player.team = "home" THEN Unit ELSE -Unit,
                          !.facingY = 0]
         IN  ResetFrom([players EXCEPT ![i] = placed], i + 1,
                       IF player.team = "home" THEN homeIndex + 1 ELSE homeIndex,
                       IF player.team = "home" THEN awayIndex ELSE awayIndex + 1)

\* Variant of resetPositions that puts the ball back and leaves the players.
resetPositionsBallOnly(loc) ==
    [loc EXCEPT !.room.ball = createInitialBall]

resetPositions(loc) ==
    [room |-> [loc.room EXCEPT !.ball = createInitialBall],
     players |-> ResetFrom(loc.players, 1, 0, 0),
     needsReset |-> loc.needsReset]

\* Variant of DeltaFrames without the catch-up cap.
DeltaFramesUncapped(deltaMs) == (deltaMs * 100) \div TICK_CENTI_MS

\* deltaFrames of a call deltaMs after the last tick.
DeltaFrames(deltaMs) == Min(MAX_CATCHUP, (deltaMs * 100) \div TICK_CENTI_MS)

\* Variant of TooSoon that rejects only a clock running backwards.
TooSoonNever(deltaMs) == deltaMs < 0

\* The time guard of updateGame.
TooSoon(deltaMs) == deltaMs < MIN_DELTA_MS

---------------------------------------------------------------------------
\* The requests in flight.

IdleUG(prevNow, prevTooSoon) ==
    [pc |-> "idle", room |-> NoRoom, players |-> <<>>, needsReset |-> FALSE,
     t |-> 0, deltaMs |-> 0, deltaFrames |-> 0, frame |-> 0, idx |-> 0,
     drawn |-> <<>>,
     prevNow |-> prevNow, prevTooSoon |-> prevTooSoon]
IdleHI == [pc |-> "idle", room |-> NoRoom, player |-> NoRoom]
IdleLV == [pc |-> "idle", playerId |-> NoOwner]

\* No solo or local match is running.
NoClient == [pc |-> "none"]

AllIdle == ug.pc = "idle" /\ hi.pc = "idle" /\ lv.pc = "idle"

Loc(u) == [room |-> u.room, players |-> u.players, needsReset |-> u.needsReset]

\* The inputs a client sends: one key at a time.
NoInput == [dx |-> 0, dy |-> 0, shoot |-> FALSE, slide |-> FALSE,
            grab |-> FALSE, pass |-> FALSE]
Inputs == {[NoInput EXCEPT !.dy = -1],
           [NoInput EXCEPT !.shoot = TRUE],
           [NoInput EXCEPT !.pass = TRUE],
           [NoInput EXCEPT !.slide = TRUE],
           [NoInput EXCEPT !.grab = TRUE]}

---------------------------------------------------------------------------
\* The states a run starts in: a store without the room, and stored states
\* of a match in progress (10 s after the room was created, a tick just
\* done).  h1 and a1 joined first on their teams and keep goal; h2 joined
\* the home team after h1.

StartNow == 200000

Stand(id, team, isGoalkeeper, x, y, hasBall) ==
    [id |-> id, x |-> x * Unit, y |-> y * Unit, team |-> team,
     isGoalkeeper |-> isGoalkeeper, hasBall |-> hasBall,
     isSliding |-> FALSE, slideTimer |-> 0, grabTimer |-> 0,
     velocityX |-> 0, velocityY |-> 0,
     facingX |-> IF team = "home" THEN Unit ELSE -Unit, facingY |-> 0,
     lastUpdate |-> StartNow]

MatchRoom(ball) ==
    [createRoom(StartNow - 10 * 1000) EXCEPT !.ball = ball,
                                            !.lastTick = StartNow,
                                            !.gameTime = GAME_SECONDS - 10]

Stored(room, players) ==
    [room |-> saveRoom(room, StartNow),
     players |-> [i \in 1..Len(players) |-> serializePlayer(players[i], StartNow)]]

\* No room yet.
Fresh == [room |-> NoRoom, players |-> <<>>]

\* The away goalkeeper a1 has the ball at its feet, h2 stands in front of it.
Play ==
    Stored(MatchRoom([createInitialBall EXCEPT
                        !.x = 720 * Unit, !.y = 250 * Unit, !.ownerId = "a1"]),
           <<Stand("h1", "home", TRUE, 50, 250, FALSE),
             Stand("a1", "away", TRUE, 740, 250, TRUE),
             Stand("h2", "home", FALSE, 690, 250, FALSE)>>)

\* Play after a1's shot: the ball is loose and rolls towards h2.
Cleared ==
    Stored(MatchRoom([createInitialBall EXCEPT
                        !.x = 720 * Unit, !.y = 250 * Unit,
                        !.velocityX = -SHOOT_POWER]),
           <<Stand("h1", "home", TRUE, 50, 250, FALSE),
             Stand("a1", "away", TRUE, 740, 250, FALSE),
             Stand("h2", "home", FALSE, 690, 250, FALSE)>>)

\* h2 has shot at the away goal; a1 stands beside the ball's path.
ShotPlayers ==
    <<Stand("h1", "home", TRUE, 50, 250, FALSE),
      Stand("a1", "away", TRUE, 750, 300, FALSE),
      Stand("h2", "home", FALSE, 700, 250, FALSE)>>
ShotRoom ==
    MatchRoom([createInitialBall EXCEPT
                 !.x = 720 * Unit, !.y = 250 * Unit, !.velocityX = SHOOT_POWER])
Shot == Stored(ShotRoom, ShotPlayers)

\* The shot of Shot went in (the frames to the goal run by Frame itself) and
\* the celebration has two frames left.
RECURSIVE FramesToGoal(_, _)
FramesToGoal(loc, n) ==
    IF n = 0 \/ Celebrating(loc.room) THEN loc
    ELSE The({FramesToGoal(next, n - 1) : next \in {Frame(loc, StartNow, <<0, 0>>)}})
Celebrate ==
    The({Stored([scored.room EXCEPT !.goalCelebration = 2], scored.players) :
         scored \in {FramesToGoal([room |-> ShotRoom, players |-> ShotPlayers,
                                   needsReset |-> FALSE], MAX_CATCHUP)}})

\* Play in the last second of the match: 179.9 s after the room was created.
LastSecond ==
    [Play EXCEPT !.room.createdAt = StartNow - (GAME_SECONDS * 1000 - 100),
                 !.room.gameTime = 1]

\* Play with a1 silent for more than 15 s.
Inactive ==
    [Play EXCEPT !.players[2].lastUpdate = StartNow - (INACTIVE_MS + 1)]

Scenarios == {Fresh, Play, Cleared, Shot, Celebrate, Inactive}

\* The history the properties read:
\*   left            the players whose leaveRoom has completed (and who have
\*                   not joined again)
\*   firstPoll       when updateGame was first called (-1: not yet)
\*   framesSince     the frames run by the calls after the first
\*   gapsOk          no two consecutive calls were further apart than
\*                   MAX_CATCHUP ticks
\*   pendingKickoff  a goal was scored and no kickoff reset has run since
\*   track, base, since   with track: the store when the requests now in
\*                   flight began, and the requests begun since
\*   refused         the players whose joinRoom returned null
\*   reply           what the route answered to the last request it handled
\*                   as a whole (GetState, PostJoin, PostInput)
NoHist(room, track) ==
    [left |-> {}, firstPoll |-> -1, framesSince |-> 0, gapsOk |-> TRUE,
     pendingKickoff |-> IF room = NoRoom THEN FALSE ELSE room.goalCelebration > 0,
     track |-> track, base |-> NoRoom, since |-> <<>>, refused |-> {},
     reply |-> [kind |-> "none"]]

InitFrom(scenarios, track) ==
    /\ now = StartNow
    /\ \E sc \in scenarios :
          /\ roomStore = sc.room
          /\ playerStore = sc.players
          /\ hist = NoHist(sc.room, track)
    /\ ug = IdleUG(-1, FALSE)
    /\ hi = IdleHI
    /\ lv = IdleLV
    /\ client = NoClient
    /\ budget = [reqs |-> 0, ticks |-> 0]

Init == InitFrom(Scenarios, FALSE)

\* hist after a request begins, with track.
Begun(h, op) ==
    IF ~h.track THEN h
    ELSE IF AllIdle
    THEN [h EXCEPT !.base = [room |-> roomStore, players |-> playerStore],
                   !.since = <<op>>]
    ELSE [h EXCEPT !.since = Append(@, op)]

---------------------------------------------------------------------------
\* joinRoom (lines 365-424), one step.
JoinRoom(playerId, team) ==
    LET room == getRoom(roomStore, now)
        roomAfter == IF room = NoRoom THEN saveRoom(createRoom(now), now)
                     ELSE roomStore
        players == getPlayers(playerStore, now)
        i == IndexOf(players, playerId)
        playersAfter ==
            IF i # 0 THEN savePlayer(playerStore, [players[i] EXCEPT !.lastUpdate = now], now)
            ELSE IF TeamFull(players, team) THEN playerStore
            ELSE savePlayer(playerStore, NewPlayer(players, playerId, team, now), now)
    IN  /\ roomStore' = roomAfter
        /\ playerStore' = playersAfter
        /\ hist' = Begun(IF playerId \in Ids(playersAfter)
                         THEN [hist EXCEPT !.left = @ \ {playerId},
                                           !.refused = @ \ {playerId}]
                         ELSE [hist EXCEPT !.refused = @ \cup {playerId}],
                         [kind |-> "join", playerId |-> playerId])
        /\ budget' = IF roomAfter # roomStore \/ playersAfter # playerStore
                     THEN [budget EXCEPT !.reqs = @ + 1] ELSE budget
        /\ UNCHANGED <<client, now, ug, hi, lv>>

\* leaveRoom (lines 426-438): the reads and the saveRoom that releases the
\* ball, then the removePlayer.  A leave of an id that is not stored changes
\* nothing and is left out.
LeaveStart(playerId) ==
    LET room == getRoom(roomStore, now)
        players == getPlayers(playerStore, now)
        i == IndexOf(players, playerId)
    IN  /\ lv.pc = "idle"
        /\ i # 0
        /\ roomStore' = IF room # NoRoom /\ players[i].hasBall
                        THEN saveRoom(Released(room), now)
                        ELSE roomStore
        /\ lv' = [pc |-> "remove", playerId |-> playerId]
        /\ budget' = [budget EXCEPT !.reqs = @ + 1]
        /\ hist' = Begun(hist, [kind |-> "leave", playerId |-> playerId])
        /\ UNCHANGED <<client, now, playerStore, ug, hi>>

LeaveRemove ==
    /\ lv.pc = "remove"
    /\ playerStore' = removePlayer(playerStore, lv.playerId)
    /\ hist' = [hist EXCEPT !.left = @ \cup {lv.playerId}]
    /\ lv' = IdleLV
    /\ UNCHANGED <<client, now, roomStore, ug, hi, budget>>

\* handleInput: the reads and the computation, then savePlayer, then
\* saveRoom.  Without the room or the player it returns at once.
InputStart(playerId, input) ==
    LET room == getRoom(roomStore, now)
        players == getPlayers(playerStore, now)
        i == IndexOf(players, playerId)
        res == handleInput(room, players, playerId, input, now)
    IN  /\ hi.pc = "idle"
        /\ room # NoRoom
        /\ i # 0
        /\ hi' = [pc |-> "savePlayer", room |-> res.room, player |-> res.player]
        /\ budget' = IF res.room # room \/ res.player # players[i] \/ hist.track
                     THEN [budget EXCEPT !.reqs = @ + 1] ELSE budget
        /\ hist' = Begun(hist, [kind |-> "input", playerId |-> playerId,
                                input |-> input, t |-> now])
        /\ UNCHANGED <<client, now, roomStore, playerStore, ug, lv>>

InputSavePlayer ==
    /\ hi.pc = "savePlayer"
    /\ playerStore' = savePlayer(playerStore, hi.player, now)
    /\ hi' = [hi EXCEPT !.pc = "saveRoom"]
    /\ UNCHANGED <<client, now, roomStore, ug, lv, budget, hist>>

InputSaveRoom ==
    /\ hi.pc = "saveRoom"
    /\ roomStore' = saveRoom(hi.room, now)
    /\ hi' = IdleHI
    /\ UNCHANGED <<client, now, playerStore, ug, lv, budget, hist>>

\* updateGame (lines 574-729), called dt ms after the previous store access:
\* the reads, the time guard and deltaFrames.
UpdateStart(dt) ==
    LET t == now + dt
        room == getRoom(roomStore, t)
        deltaMs == t - room.lastTick
        returns == IF room = NoRoom THEN TRUE
                   ELSE ~room.isPlaying \/ TooSoon(deltaMs)
    IN  /\ ug.pc = "idle"
        /\ now' = t
        /\ ug' = IF returns THEN IdleUG(t, room # NoRoom /\ room.isPlaying)
                 ELSE [pc |-> "frames",
                       room |-> [room EXCEPT !.lastTick = t],
                       players |-> getPlayers(playerStore, t),
                       needsReset |-> FALSE,
                       t |-> t, deltaMs |-> deltaMs,
                       deltaFrames |-> DeltaFrames(deltaMs),
                       frame |-> 0, idx |-> 0, drawn |-> <<>>,
                       prevNow |-> ug.prevNow, prevTooSoon |-> ug.prevTooSoon]
        /\ budget' = [budget EXCEPT !.ticks = @ + 1]
        /\ hist' = Begun(IF hist.firstPoll = -1
                         THEN [hist EXCEPT !.firstPoll = t]
                         ELSE [hist EXCEPT !.gapsOk =
                                 @ /\ (t - ug.prevNow) * 100 <= MAX_CATCHUP * TICK_CENTI_MS],
                         [kind |-> "update", t |-> t])
        /\ UNCHANGED <<client, roomStore, playerStore, hi, lv>>

\* One pass of the frame loop.
UpdateFrame ==
    /\ ug.pc = "frames"
    /\ ug.frame < ug.deltaFrames
    /\ \E f \in {FrameToPickup(Loc(ug), ug.t)} :
       \E drawn \in FrameDraws(f, ug.drawn) :
       \E after \in {FrameTackle(f, IF drawn = <<>> THEN <<0, 0>> ELSE drawn[1])} :
          ug' = [ug EXCEPT !.room = after.room,
                           !.players = after.players,
                           !.needsReset = after.needsReset,
                           !.frame = @ + 1,
                           !.drawn = drawn]
    /\ hist' = [hist EXCEPT
                  !.framesSince = IF budget.ticks > 1 THEN @ + 1 ELSE @,
                  !.pendingKickoff = @ \/ ug'.room.score # ug.room.score]
    /\ UNCHANGED <<client, now, roomStore, playerStore, hi, lv, budget>>

\* After the loop: the deferred resetPositions.
UpdateAfterLoop ==
    /\ ug.pc = "frames"
    /\ ug.frame = ug.deltaFrames
    /\ LET after == IF ug.needsReset THEN resetPositions(Loc(ug)) ELSE Loc(ug)
       IN  ug' = [ug EXCEPT !.room = after.room,
                            !.players = after.players,
                            !.pc = IF Len(ug.players) = 0 THEN "saveRoom" ELSE "savePlayers",
                            !.idx = 1]
    /\ hist' = [hist EXCEPT !.pendingKickoff = @ /\ ~ug.needsReset]
    /\ UNCHANGED <<client, now, roomStore, playerStore, hi, lv, budget>>

\* savePlayer of the next player read.
UpdateSavePlayer ==
    /\ ug.pc = "savePlayers"
    /\ playerStore' = savePlayer(playerStore, ug.players[ug.idx], now)
    /\ ug' = [ug EXCEPT !.idx = @ + 1,
                        !.pc = IF ug.idx = Len(ug.players) THEN "saveRoom" ELSE @]
    /\ UNCHANGED <<client, now, roomStore, hi, lv, budget, hist>>

\* saveRoom, and the call is over.
UpdateSaveRoom ==
    /\ ug.pc = "saveRoom"
    /\ roomStore' = saveRoom(ug.room, now)
    /\ ug' = IdleUG(ug.t, FALSE)
    /\ UNCHANGED <<client, now, playerStore, hi, lv, budget, hist>>

\* getRoomList (lines 302-363), one step: the lobby lists the rooms.
GetRoomList ==
    \E after \in {getRoomList(roomStore, playerStore, now)} :
        /\ roomStore' = after.roomStore
        /\ playerStore' = after.players
        /\ budget' = IF after.roomStore # roomStore \/ after.players # playerStore
                     THEN [budget EXCEPT !.reqs = @ + 1] ELSE budget
        /\ UNCHANGED <<client, now, ug, hi, lv, hist>>

---------------------------------------------------------------------------
\* Requests run one at a time.
Next ==
    \/ /\ AllIdle
       /\ budget.reqs < MaxReq
       /\ \/ \E playerId \in PlayerIds, team \in Teams : JoinRoom(playerId, team)
          \/ \E playerId \in PlayerIds : LeaveStart(playerId)
          \/ \E playerId \in PlayerIds, input \in Inputs : InputStart(playerId, input)
          \/ GetRoomList
    \/ /\ AllIdle
       /\ budget.ticks < MaxTicks
       /\ \E dt \in DTs : UpdateStart(dt)
    \/ LeaveRemove
    \/ InputSavePlayer
    \/ InputSaveRoom
    \/ UpdateFrame
    \/ UpdateAfterLoop
    \/ UpdateSavePlayer
    \/ UpdateSaveRoom

Spec == Init /\ [][Next]_vars

\* A room that is only polled: updateGame calls, one at a time.
NextPoll ==
    \/ /\ AllIdle
       /\ budget.ticks < MaxPolls
       /\ \E dt \in DTs : UpdateStart(dt)
    \/ UpdateFrame
    \/ UpdateAfterLoop
    \/ UpdateSavePlayer
    \/ UpdateSaveRoom

SpecPoll == InitFrom({Play, Shot, Celebrate, LastSecond, Inactive}, FALSE) /\ [][NextPoll]_vars

\* Overlapping requests: an input or a leave and a poll interleave at their
\* store accesses.
NextConc ==
    \/ /\ budget.reqs < MaxReq
       /\ \/ \E playerId \in PlayerIds : LeaveStart(playerId)
          \/ \E playerId \in PlayerIds, input \in Inputs : InputStart(playerId, input)
    \/ /\ budget.ticks < MaxConcTicks
       /\ \E dt \in DTs : UpdateStart(dt)
    \/ LeaveRemove
    \/ InputSavePlayer
    \/ InputSaveRoom
    \/ UpdateFrame
    \/ UpdateAfterLoop
    \/ UpdateSavePlayer
    \/ UpdateSaveRoom

SpecConc == InitFrom({Play, Cleared}, TRUE) /\ [][NextConc]_vars


---------------------------------------------------------------------------
\* Whole requests as functions of the store, for comparing an interleaving
\* with the requests run one after the other.

RECURSIVE RunFrames(_, _, _, _)
RunFrames(loc, t, n, rnd) ==
    IF n = 0 THEN loc
    ELSE The({RunFrames(g, t, n - 1, rnd) : g \in {Frame(loc, t, rnd)}})

RECURSIVE SavePlayers(_, _, _, _)
SavePlayers(store, players, i, t) ==
    IF i > Len(players) THEN store
    ELSE SavePlayers(savePlayer(store, players[i], t), players, i + 1, t)

\* updateGame at time t on the store st, its tackles drawing rnd.
updateGame(st, t, rnd) ==
    LET room == getRoom(st.room, t)
    IN  IF room = NoRoom THEN st
        ELSE IF ~room.isPlaying \/ TooSoon(t - room.lastTick) THEN st
        ELSE The({[room |-> saveRoom(after.room, t),
                   players |-> SavePlayers(st.players, after.players, 1, t)] :
               after \in {IF g.needsReset THEN resetPositions(g) ELSE g :
                 g \in {RunFrames([room |-> [room EXCEPT !.lastTick = t],
                                   players |-> getPlayers(st.players, t),
                                   needsReset |-> FALSE],
                                  t, DeltaFrames(t - room.lastTick), rnd)}}})

\* handleInput, reads and saves included, on the store st.
handleInputCall(st, t, playerId, input) ==
    LET room == getRoom(st.room, t)
        players == getPlayers(st.players, t)
    IN  IF room = NoRoom \/ IndexOf(players, playerId) = 0 THEN st
        ELSE The({[room |-> saveRoom(res.room, t),
                   players |-> savePlayer(st.players, res.player, t)] :
               res \in {handleInput(room, players, playerId, input, t)}})

\* What the store can be after the input inp and the poll upd, run one after
\* the other from the store st, in either order.
SerialOutcomes(st, inp, upd) ==
    UNION {{updateGame(handleInputCall(st, inp.t, inp.playerId, inp.input), upd.t, rnd),
            handleInputCall(updateGame(st, upd.t, rnd), inp.t, inp.playerId, inp.input)} :
           rnd \in RandVals \X RandVals}

\* The players of a list that have the ball.
Holders(players) == {i \in 1..Len(players) : players[i].hasBall}

\* At most one player of the list has the ball, and the ball names no owner
\* or that player.
Exclusive(room, players) ==
    /\ Cardinality(Holders(players)) <= 1
    /\ room # NoRoom =>
         \/ room.ball.ownerId = NoOwner
         \/ \E i \in Holders(players) : players[i].id = room.ball.ownerId

\* A ball marked grabbed is owned by a goalkeeper of the list.
GrabbedByKeeper(room, players) ==
    (room # NoRoom /\ room.ball.isGrabbed) =>
        \E i \in 1..Len(players) :
            players[i].id = room.ball.ownerId /\ players[i].isGoalkeeper

\* The updateGame call in flight is between two frames or after the last.
AtFrameBoundary == ug.pc \in {"frames", "savePlayers", "saveRoom"}

\* This step is one pass of the frame loop.
FrameStep == ug.pc = "frames" /\ ug'.pc = "frames" /\ ug'.frame = ug.frame + 1

\* This step is an updateGame call that begins dt ms after the one before.
SecondCallWithin(ms) ==
    ug.pc = "idle" /\ ug.prevNow # -1 /\ now' # now /\ now' - ug.prevNow < ms

---------------------------------------------------------------------------
\* C1: with requests run one at a time, at every tick boundary at most one
\* player has hasBall = true, and ball.ownerId is null or the id of that
\* player: in the store between requests, and in the running updateGame call
\* between frames.
C1_PossessionExclusive ==
    /\ AllIdle => Exclusive(roomStore, playerStore)
    /\ AtFrameBoundary => Exclusive(ug.room, ug.players)

\* C1 witness: a tick gave the loose ball to h2, who is stored as its only
\* holder and its owner.
C1_Witness ==
    /\ AllIdle
    /\ budget.ticks > 0
    /\ roomStore # NoRoom
    /\ roomStore.ball.ownerId = "h2"
    /\ \E i \in Holders(playerStore) : playerStore[i].id = "h2"

\* C2: a goal is counted once: after a frame scores, no later frame of the
\* same or a later updateGame call changes the score until the kickoff reset
\* has run.
C2_GoalCountedOnce ==
    [][(FrameStep /\ hist.pendingKickoff) => ug'.room.score = ug.room.score]_vars

\* C3: scores never decrease; a frame changes the score only when
\* goalCelebration was 0 before it, and then adds exactly 1 to one team,
\* sets lastGoalTeam to that team and goalCelebration to 150.
C3_ScoreSteps ==
    [][/\ (roomStore # NoRoom /\ roomStore' # NoRoom) =>
            \A team \in Teams : roomStore'.score[team] >= roomStore.score[team]
       /\ FrameStep =>
            \/ ug'.room.score = ug.room.score
            \/ /\ ug.room.goalCelebration = 0
               /\ ug'.room.goalCelebration = 150
               /\ \E team \in Teams :
                    /\ ug'.room.score = [ug.room.score EXCEPT ![team] = @ + 1]
                    /\ ug'.room.lastGoalTeam = team]_vars

\* C3 witness: a frame of the running call has just scored for home.
C3_Witness ==
    /\ ug.pc = "frames"
    /\ ug.frame > 0
    /\ roomStore # NoRoom
    /\ ug.room.score.home = roomStore.score.home + 1
    /\ ug.room.goalCelebration = 150
    /\ ug.room.lastGoalTeam = "home"

\* C4: ball.isGrabbed = true implies that ball.ownerId names a stored player
\* who is a goalkeeper: in the store between requests, and in the running
\* updateGame call between frames.
C4_GrabbedByGoalkeeper ==
    /\ AllIdle => GrabbedByKeeper(roomStore, playerStore)
    /\ AtFrameBoundary => GrabbedByKeeper(ug.room, ug.players)

\* C4 witness: the goalkeeper a1 grabbed the ball and a tick has run since.
C4_Witness ==
    /\ AllIdle
    /\ budget.ticks > 0
    /\ budget.reqs > 0
    /\ roomStore # NoRoom
    /\ roomStore.ball.isGrabbed
    /\ roomStore.ball.ownerId = "a1"

\* C5: when a handleInput and an updateGame on the same room overlap, the
\* store after both is what running them one after the other, in one of the
\* two orders, leaves.
C5_OverlapIsSerial ==
    (/\ AllIdle
     /\ hist.track
     /\ Len(hist.since) = 2
     /\ {hist.since[1].kind, hist.since[2].kind} = {"input", "update"})
    => \E i \in {1, 2} :
          /\ hist.since[i].kind = "input"
          /\ [room |-> roomStore, players |-> playerStore]
                \in SerialOutcomes(hist.base, hist.since[i], hist.since[3 - i])

\* C6: with overlapping requests too, once they are over the store never has
\* two players with hasBall = true.
C6_OneHolderUnderOverlap ==
    AllIdle => Cardinality(Holders(playerStore)) <= 1

\* C7: a player whose leaveRoom has completed is not among the stored
\* players, whatever request was in flight when they left.
C7_LeftStaysAbsent ==
    \A playerId \in hist.left : playerId \notin Ids(playerStore)

\* C8 as stated: an updateGame call less than 16 ms after the one before
\* runs no frame and leaves the store as it was.
C8_SecondCallNoOp ==
    [][SecondCallWithin(16) =>
          ug'.pc = "idle" /\ roomStore' = roomStore /\ playerStore' = playerStore]_vars

\* C8 amended: an updateGame call less than 16 ms after one that the time
\* guard did not reject runs no frame and leaves the store as it was.
C8_SecondCallNoOpAfterRun ==
    [][(SecondCallWithin(16) /\ ~ug.prevTooSoon) =>
          ug'.pc = "idle" /\ roomStore' = roomStore /\ playerStore' = playerStore]_vars

\* C8 witness: a call 10 ms after a call that ran frames has returned at
\* the time guard.
C8_Witness ==
    /\ ug.pc = "idle"
    /\ ug.prevNow = now
    /\ ug.prevTooSoon
    /\ budget.ticks >= 2
    /\ roomStore # NoRoom
    /\ roomStore.lastTick = now - 10

\* C9: over calls no further apart than 10 ticks, the frames run since the
\* first call are within one of the 16.67 ms ticks elapsed since it.
C9_NoTimeLost ==
    (/\ ug.pc = "idle"
     /\ roomStore # NoRoom
     /\ hist.firstPoll # -1
     /\ hist.gapsOk)
    => Abs(hist.framesSince - ((now - hist.firstPoll) * 100) \div 1667) <= 1

\* C10: a call that passes the time guard runs min(10, floor(deltaMs / 16.67))
\* frames, and never more than 10.
C10_FramesRun ==
    /\ ug.pc # "idle" => ug.frame <= 10
    /\ ug.pc \in {"savePlayers", "saveRoom"} =>
         ug.frame = (IF (ug.deltaMs * 100) \div 1667 < 10
                     THEN (ug.deltaMs * 100) \div 1667 ELSE 10)

\* C10 witness: a call 200 ms after the last tick has run its 10 frames.
C10_Witness ==
    /\ ug.pc = "saveRoom"
    /\ ug.frame = 10
    /\ (ug.deltaMs * 100) \div 1667 > 10


---------------------------------------------------------------------------
\* Saving and loading one room and one player.

\* Rooms of a match: the clock at its start, in its last second and run out;
\* before and after a goal.
RoundTripRooms ==
    {[createRoom(StartNow - (GAME_SECONDS - gameTime) * 1000) EXCEPT
                                  !.lastTick = StartNow,
                                  !.gameTime = gameTime,
                                  !.score.home = goal[1],
                                  !.lastGoalTeam = IF goal[1] = 0 THEN NoOwner ELSE "home",
                                  !.goalCelebration = goal[2]] :
        gameTime \in {0, 1, GAME_SECONDS},
        goal \in {<<0, 0>>, <<1, 0>>, <<1, CELEBRATION>>}}

\* Players as handleInput leaves them: facing along an axis, standing or
\* moving that way, with or without the ball.
RoundTripPlayers ==
    {[Stand("h2", "home", FALSE, 300, 200, hasBall) EXCEPT
         !.facingX = facing[1] * Unit,
         !.facingY = facing[2] * Unit,
         !.velocityX = IF moving THEN facing[1] * PLAYER_SPEED ELSE 0,
         !.velocityY = IF moving THEN facing[2] * PLAYER_SPEED ELSE 0] :
        facing \in {<<1, 0>>, <<-1, 0>>, <<0, 1>>, <<0, -1>>},
        moving \in BOOLEAN,
        hasBall \in BOOLEAN}

InitRoundTrip ==
    /\ now = StartNow
    /\ roomStore = NoRoom
    /\ playerStore = <<>>
    /\ \E room \in RoundTripRooms, player \in RoundTripPlayers :
          ug = [IdleUG(-1, FALSE) EXCEPT !.pc = "memory",
                                         !.room = room,
                                         !.players = <<player>>]
    /\ hi = IdleHI
    /\ lv = IdleLV
    /\ client = NoClient
    /\ budget = [reqs |-> 0, ticks |-> 0]
    /\ hist = NoHist(NoRoom, FALSE)

\* saveRoom and savePlayer of the records in memory.
SaveRecords ==
    /\ ug.pc = "memory"
    /\ roomStore' = saveRoom(ug.room, now)
    /\ playerStore' = savePlayer(playerStore, ug.players[1], now)
    /\ ug' = [ug EXCEPT !.pc = "saved"]
    /\ UNCHANGED <<client, now, hi, lv, budget, hist>>

\* getRoom and getPlayers of what was saved.
LoadRecords ==
    /\ ug.pc = "saved"
    /\ hi.pc = "idle"
    /\ hi' = [pc |-> "loaded",
              room |-> getRoom(roomStore, now),
              player |-> getPlayers(playerStore, now)[1]]
    /\ UNCHANGED <<client, now, roomStore, playerStore, ug, lv, budget, hist>>

NextRoundTrip ==
    \/ SaveRecords
    \/ LoadRecords

SpecRoundTrip == InitRoundTrip /\ [][NextRoundTrip]_vars

\* C11: saving and re-loading is lossless: the room and the player loaded
\* have the field values of the room and the player that were saved,
\* gameTime = 0 and facingX = 0 included.
C11_RoundTripLossless ==
    hi.pc = "loaded" => hi.room = ug.room /\ hi.player = ug.players[1]


---------------------------------------------------------------------------
\* C12: every stored player's facing is a unit vector, also after an input
\* that points straight up or down.
C12_FacingIsUnit ==
    \A i \in 1..Len(playerStore) :
        playerStore[i].facingX * playerStore[i].facingX
          + playerStore[i].facingY * playerStore[i].facingY = Unit * Unit

\* This step is the computation of a handleInput call.
InputStep == hi.pc = "idle" /\ hi'.pc = "savePlayer"

\* The fields of a player that gameplay reads.
Gameplay(player) ==
    <<player.velocityX, player.velocityY, player.facingX, player.facingY,
      player.hasBall, player.isSliding>>

\* C16: while goalCelebration > 0, handleInput changes neither its player's
\* velocity, facing, hasBall or isSliding nor any field of the ball.
C16_InputFrozenInCelebration ==
    [][(InputStep /\ roomStore # NoRoom /\ roomStore.goalCelebration > 0) =>
          /\ hi'.room.ball = getRoom(roomStore, now).ball
          /\ \E i \in 1..Len(playerStore) :
                /\ playerStore[i].id = hi'.player.id
                /\ Gameplay(hi'.player) = Gameplay(parsePlayer(playerStore[i], now))]_vars

\* The goalkeepers of a team among the players.
Keepers(players, team) ==
    {i \in 1..Len(players) : players[i].team = team /\ players[i].isGoalkeeper}

\* C17: between requests, each team that has a player has exactly one
\* goalkeeper.
C17_OneKeeperPerTeam ==
    AllIdle =>
        \A team \in Teams :
            TeamCount(playerStore, team) > 0 =>
                Cardinality(Keepers(playerStore, team)) = 1


---------------------------------------------------------------------------
\* The gameTime a getGameState snapshot of the store reports (part_002 lines
\* 779-796: the room is read again after updateGame).
SnapshotGameTime(store, t) == getRoom(store, t).gameTime

\* C13: the gameTime of successive snapshots never increases and is never
\* below 0; after a snapshot with gameTime = 0 every snapshot has 0.
C13_ClockNeverRises ==
    [][(roomStore # NoRoom /\ roomStore' # NoRoom) =>
          /\ SnapshotGameTime(roomStore', now') >= 0
          /\ SnapshotGameTime(roomStore', now') <= SnapshotGameTime(roomStore, now)]_vars


---------------------------------------------------------------------------
\* The kickoff slots of a team and role, in pixels.
KickoffSlots(team, isGoalkeeper) ==
    IF isGoalkeeper
    THEN {IF team = "home" THEN <<50, 250>> ELSE <<750, 250>>}
    ELSE IF team = "home"
    THEN {<<150, 150>>, <<150, 350>>, <<300, 200>>, <<300, 300>>}
    ELSE {<<650, 150>>, <<650, 350>>, <<500, 200>>, <<500, 300>>}

\* The ball at the centre and at rest with no owner, and every player at a
\* kickoff slot of its team and role, at rest, without the ball.
AtKickoff(room, players) ==
    /\ room.ball = [x |-> 400 * Unit, y |-> 250 * Unit,
                    velocityX |-> 0, velocityY |-> 0,
                    ownerId |-> NoOwner, isGrabbed |-> FALSE]
    /\ \A i \in 1..Len(players) :
          /\ \E slot \in KickoffSlots(players[i].team, players[i].isGoalkeeper) :
                players[i].x = slot[1] * Unit /\ players[i].y = slot[2] * Unit
          /\ ~players[i].hasBall
          /\ ~players[i].isSliding
          /\ players[i].velocityX = 0
          /\ players[i].velocityY = 0

---------------------------------------------------------------------------
\* C19: between requests, ball.ownerId is null or the id of a stored
\* player, also after the owner left or was removed for inactivity.
C19_OwnerIsStored ==
    (AllIdle /\ roomStore # NoRoom /\ roomStore.ball.ownerId # NoOwner) =>
        roomStore.ball.ownerId \in Ids(playerStore)

\* C19 witness: a1, who held the ball, was removed for inactivity (it did
\* not leave), and the ball lies where a1 held it, without an owner.
C19_Witness ==
    /\ AllIdle
    /\ roomStore # NoRoom
    /\ "a1" \notin Ids(playerStore)
    /\ "a1" \notin hist.left
    /\ "h2" \in Ids(playerStore)
    /\ roomStore.ball.ownerId = NoOwner
    /\ ~roomStore.ball.isGrabbed
    /\ roomStore.ball.x = 720 * Unit
    /\ roomStore.ball.velocityX = 0

\* C20: once an operation on the room (a tick, an input or a state request)
\* has completed, no stored player has been silent for more than 15 s.
C20_InactiveRemoved ==
    (AllIdle /\ budget.ticks > 0) =>
        \A i \in 1..Len(playerStore) : now - playerStore[i].lastUpdate <= 15000


---------------------------------------------------------------------------
\* Joins and leaves on a room whose home team is nearly full.

MaxJoins == 3        \* joins and leaves that change the store (SpecJoin)

JoinIds == {"a1", "h4", "h5", "h6"}

\* The stored players after the joiners <<id, team>> joined in turn.
RECURSIVE JoinAll(_, _, _)
JoinAll(store, joiners, t) ==
    IF joiners = <<>> THEN store
    ELSE The({JoinAll(next, Tail(joiners), t) :
           next \in {savePlayer(store,
                                NewPlayer(getPlayers(store, t), joiners[1][1],
                                          joiners[1][2], t), t)}})

\* A room just created, after h1, a1, h2, h3 and h4 joined: four of the five
\* home places are taken.
Crowd ==
    [room |-> saveRoom(createRoom(StartNow), StartNow),
     players |-> JoinAll(<<>>, <<<<"h1", "home">>, <<"a1", "away">>,
                                <<"h2", "home">>, <<"h3", "home">>,
                                <<"h4", "home">>>>, StartNow)]

NextJoin ==
    \/ /\ AllIdle
       /\ budget.reqs < MaxJoins
       /\ \E playerId \in JoinIds, team \in Teams : JoinRoom(playerId, team)
    \/ /\ AllIdle
       /\ budget.reqs < MaxJoins
       /\ \E playerId \in JoinIds : LeaveStart(playerId)
    \/ LeaveRemove

SpecJoin == InitFrom({Crowd}, FALSE) /\ [][NextJoin]_vars

\* C18: with joins and leaves run one at a time, no team ever has more than
\* 5 players, and a joinRoom of a new player id for a team that has 5
\* players returns null and leaves the stored players as they were.
C18_TeamFull ==
    [][/\ \A team \in Teams : TeamCount(playerStore', team) <= 5
       /\ \A playerId \in JoinIds, team \in Teams :
            (/\ JoinRoom(playerId, team)
             /\ playerId \notin Ids(playerStore)
             /\ TeamCount(playerStore, team) >= 5)
            => playerStore' = playerStore /\ playerId \in hist'.refused]_vars

\* C18 witness: the home team has 5 players and a joinRoom was refused.
C18_Witness ==
    /\ TeamCount(playerStore, "home") = 5
    /\ hist.refused # {}
    /\ hist.refused \cap Ids(playerStore) = {}


---------------------------------------------------------------------------
\* The game loop of the solo and local matches (solo-game-canvas.tsx lines
\* 612-653, local-game-canvas.tsx lines 639-664), the countdown over and no
\* celebration running.  Times are in thirds of a millisecond, so that
\* FIXED_STEP = 1000 / 60 ms is a whole number.

CLOCK_SCALE == 3
SECOND == 1000 * CLOCK_SCALE
FIXED_STEP == SECOND \div 60
MAX_STEPS == 4
FrameGaps == {16, 17}          \* ms between two animation frames

InitLoop ==
    /\ now = StartNow
    /\ roomStore = NoRoom
    /\ playerStore = <<>>
    /\ ug = IdleUG(-1, FALSE)
    /\ hi = IdleHI
    /\ lv = IdleLV
    /\ budget = [reqs |-> 0, ticks |-> 0]
    /\ hist = NoHist(NoRoom, FALSE)
    /\ client = [pc |-> "wait", first |-> TRUE, timeAccumulator |-> 0,
                 gameTime |-> GAME_SECONDS, goalCelebration |-> 0, steps |-> 0]

\* The game timer of the loop (solo lines 639-644).
GameTimer(c) ==
    IF c.gameTime > 0 /\ c.goalCelebration = 0 /\ c.timeAccumulator >= SECOND
    THEN [c EXCEPT !.gameTime = @ - 1, !.timeAccumulator = @ - SECOND]
    ELSE c

\* An animation frame arrives deltaTime ms after the one before (0 for the
\* first): the accumulator grows, then the game timer looks at it.
FrameArrives(deltaTime) ==
    /\ client.pc = "wait"
    /\ client.first => deltaTime = 0
    /\ ~client.first => deltaTime \in FrameGaps
    /\ client' = GameTimer([client EXCEPT
                              !.pc = "steps",
                              !.first = FALSE,
                              !.timeAccumulator = @ + deltaTime * CLOCK_SCALE,
                              !.steps = 0])
    /\ UNCHANGED <<now, roomStore, playerStore, ug, hi, lv, budget, hist>>

\* One pass of the fixed-timestep loop: updateGame() and FIXED_STEP off the
\* accumulator.
FixedStep ==
    /\ client.pc = "steps"
    /\ client.timeAccumulator >= FIXED_STEP
    /\ client.steps < MAX_STEPS
    /\ client' = [client EXCEPT !.timeAccumulator = @ - FIXED_STEP,
                                !.steps = @ + 1]
    /\ UNCHANGED <<now, roomStore, playerStore, ug, hi, lv, budget, hist>>

\* The loop ends: render and requestAnimationFrame.
FrameDone ==
    /\ client.pc = "steps"
    /\ ~(client.timeAccumulator >= FIXED_STEP /\ client.steps < MAX_STEPS)
    /\ client' = [client EXCEPT !.pc = "wait"]
    /\ UNCHANGED <<now, roomStore, playerStore, ug, hi, lv, budget, hist>>

NextLoop ==
    \/ \E deltaTime \in FrameGaps \cup {0} : FrameArrives(deltaTime)
    \/ FixedStep
    \/ FrameDone

\* requestAnimationFrame keeps the frames coming.
SpecLoop == InitLoop /\ [][NextLoop]_vars /\ WF_vars(NextLoop)

\* C14: with frames arriving every 16 or 17 ms, the match running and no
\* celebration, gameTime eventually reaches 0 and stays there.
C14_ClockRunsOut == <>[](client.gameTime = 0)


---------------------------------------------------------------------------
\* A room with one player left: the player leaves or falls silent, the lobby
\* lists the rooms and clients ask for the state.

MaxLast == 2         \* leaves and listings that change the store (SpecLast)

\* a1 alone in the room, with the ball at its feet.
Alone ==
    Stored(MatchRoom([createInitialBall EXCEPT
                        !.x = 720 * Unit, !.y = 250 * Unit, !.ownerId = "a1"]),
           <<Stand("a1", "away", TRUE, 740, 250, TRUE)>>)

\* Alone with a1 silent for more than 15 s.
AloneInactive ==
    [Alone EXCEPT !.players[1].lastUpdate = StartNow - (INACTIVE_MS + 1)]

\* Whether getGameState returns a snapshot of the room (not null).
GameStateFound(stored, t) == getRoom(stored, t) # NoRoom

\* Whether getRoomList's result has an entry for the room.
RoomListed(stored, t) ==
    /\ getRoom(stored, t) # NoRoom
    /\ ~(t - getRoom(stored, t).lastTick > ROOM_IDLE_MS)

NextLast ==
    \/ /\ AllIdle
       /\ budget.reqs < MaxLast
       /\ \/ \E playerId \in PlayerIds : LeaveStart(playerId)
          \/ GetRoomList
    \/ /\ AllIdle
       /\ budget.ticks < MaxTicks
       /\ \E dt \in DTs : UpdateStart(dt)
    \/ LeaveRemove
    \/ UpdateFrame
    \/ UpdateAfterLoop
    \/ UpdateSavePlayer
    \/ UpdateSaveRoom

SpecLast == InitFrom({Alone, AloneInactive}, FALSE) /\ [][NextLast]_vars

\* C21: once the last player of a room has left or has been removed for
\* inactivity, getGameState does not return the room and getRoomList does
\* not list it.
C21_EmptyRoomDiscarded ==
    (AllIdle /\ Len(playerStore) = 0) =>
        /\ ~GameStateFound(roomStore, now)
        /\ ~RoomListed(roomStore, now)


---------------------------------------------------------------------------
\* Writes that fail.  saveRoom and savePlayer catch the error of redis and
\* return (lines 253-255, 263-265): the caller goes on to its next write and
\* the store keeps what it had.

InputSavePlayerFails ==
    /\ hi.pc = "savePlayer"
    /\ hi' = [hi EXCEPT !.pc = "saveRoom"]
    /\ UNCHANGED <<client, now, roomStore, playerStore, ug, lv, budget, hist>>

InputSaveRoomFails ==
    /\ hi.pc = "saveRoom"
    /\ hi' = IdleHI
    /\ UNCHANGED <<client, now, roomStore, playerStore, ug, lv, budget, hist>>

UpdateSavePlayerFails ==
    /\ ug.pc = "savePlayers"
    /\ ug' = [ug EXCEPT !.idx = @ + 1,
                        !.pc = IF ug.idx = Len(ug.players) THEN "saveRoom" ELSE @]
    /\ UNCHANGED <<client, now, roomStore, playerStore, hi, lv, budget, hist>>

UpdateSaveRoomFails ==
    /\ ug.pc = "saveRoom"
    /\ ug' = IdleUG(ug.t, FALSE)
    /\ UNCHANGED <<client, now, roomStore, playerStore, hi, lv, budget, hist>>

\* Inputs and polls one at a time, each write succeeding or failing.
NextFail ==
    \/ /\ AllIdle
       /\ budget.reqs < MaxReq
       /\ \E playerId \in PlayerIds, input \in Inputs : InputStart(playerId, input)
    \/ /\ AllIdle
       /\ budget.ticks < MaxConcTicks
       /\ \E dt \in DTs : UpdateStart(dt)
    \/ InputSavePlayer
    \/ InputSavePlayerFails
    \/ InputSaveRoom
    \/ InputSaveRoomFails
    \/ UpdateFrame
    \/ UpdateAfterLoop
    \/ UpdateSavePlayer
    \/ UpdateSavePlayerFails
    \/ UpdateSaveRoom
    \/ UpdateSaveRoomFails

SpecFail == InitFrom({Play, Cleared}, FALSE) /\ [][NextFail]_vars

\* C22: whichever writes of a handleInput or updateGame call fail, the store
\* after the call has at most one player with hasBall = true, and
\* ball.ownerId is null or the id of that player.
C22_FailedSaveKeepsPossession ==
    AllIdle => Exclusive(roomStore, playerStore)


---------------------------------------------------------------------------
\* Requests as the route answers them (route.ts lines 18-137), each handled
\* as a whole.  A read of the room can fail: getRoom catches the error of
\* redis and returns null (lines 222-225).

MaxRoute == 2        \* requests handled (SpecRoute)

RouteIds == {"a1", "h2", "x9"}    \* x9 is in no room

\* getGameState (lines 755-799) on the store st: the store after it and
\* whether it returns a snapshot.  fails: its first getRoom fails.
getGameState(st, t, rnd, fails) ==
    IF fails \/ getRoom(st.room, t) = NoRoom
    THEN [store |-> st, found |-> FALSE]
    ELSE The({[store |-> after, found |-> getRoom(after.room, t) # NoRoom] :
              after \in {updateGame(st, t, rnd)}})

\* Variant of joinRoom that looks at the team's size before it looks for
\* the player.
joinRoomCapacityFirst(st, t, playerId, team, fails) ==
    LET room == IF fails THEN NoRoom ELSE getRoom(st.room, t)
        players == getPlayers(st.players, t)
        i == IndexOf(players, playerId)
    IN  [room |-> IF room = NoRoom THEN saveRoom(createRoom(t), t) ELSE st.room,
         players |->
            IF TeamFull(players, team) THEN st.players
            ELSE IF i # 0
            THEN savePlayer(st.players, [players[i] EXCEPT !.lastUpdate = t], t)
            ELSE savePlayer(st.players, NewPlayer(players, playerId, team, t), t),
         joined |-> ~TeamFull(players, team)]

\* joinRoom (lines 365-424) on the store st: the store after it and whether
\* it returns a player.  fails: its getRoom fails.
joinRoom(st, t, playerId, team, fails) ==
    LET room == IF fails THEN NoRoom ELSE getRoom(st.room, t)
        players == getPlayers(st.players, t)
        i == IndexOf(players, playerId)
    IN  [room |-> IF room = NoRoom THEN saveRoom(createRoom(t), t) ELSE st.room,
         players |->
            IF i # 0 THEN savePlayer(st.players, [players[i] EXCEPT !.lastUpdate = t], t)
            ELSE IF TeamFull(players, team) THEN st.players
            ELSE savePlayer(st.players, NewPlayer(players, playerId, team, t), t),
         joined |-> i # 0 \/ ~TeamFull(players, team)]

\* GET: getGameState, answered with the state or with 404 "Room not found".
GetState(dt, fails) ==
    \E rnd \in RandVals \X RandVals :
    \E gs \in {getGameState([room |-> roomStore, players |-> playerStore],
                            now + dt, rnd, fails)} :
        /\ AllIdle
        /\ now' = now + dt
        /\ roomStore' = gs.store.room
        /\ playerStore' = gs.store.players
        /\ budget' = [budget EXCEPT !.reqs = @ + 1]
        /\ hist' = [hist EXCEPT !.reply =
                      [kind |-> "state", readFailed |-> fails,
                       status |-> IF gs.found THEN "success" ELSE "notFound"]]
        /\ UNCHANGED <<client, ug, hi, lv>>

\* POST join: joinRoom, answered with the player or with 400.
PostJoin(playerId, team, fails) ==
    \E jr \in {joinRoom([room |-> roomStore, players |-> playerStore],
                        now, playerId, team, fails)} :
        /\ AllIdle
        /\ roomStore' = jr.room
        /\ playerStore' = jr.players
        /\ budget' = [budget EXCEPT !.reqs = @ + 1]
        /\ hist' = [hist EXCEPT !.reply =
                      [kind |-> "join", readFailed |-> fails,
                       status |-> IF jr.joined THEN "success" ELSE "refused"]]
        /\ UNCHANGED <<client, now, ug, hi, lv>>

\* POST input: handleInput, then getGameState, answered with the state or
\* with 404 "Room not found".
PostInput(playerId, input, dt) ==
    \E rnd \in RandVals \X RandVals :
    \E st \in {[room |-> roomStore, players |-> playerStore]} :
    \E done \in {handleInputCall(st, now + dt, playerId, input)} :
    \E gs \in {getGameState(done, now + dt, rnd, FALSE)} :
        /\ AllIdle
        /\ now' = now + dt
        /\ roomStore' = gs.store.room
        /\ playerStore' = gs.store.players
        /\ budget' = [budget EXCEPT !.reqs = @ + 1]
        /\ hist' = [hist EXCEPT !.reply =
                      [kind |-> "input", readFailed |-> FALSE,
                       playerFound |-> playerId \in Ids(getPlayers(st.players, now + dt)),
                       changed |-> done # st,
                       status |-> IF gs.found THEN "success" ELSE "notFound"]]
        /\ UNCHANGED <<client, ug, hi, lv>>

NextRoute ==
    \/ /\ budget.reqs < MaxRoute
       /\ \E dt \in DTs, fails \in BOOLEAN : GetState(dt, fails)
    \/ /\ budget.reqs < MaxRoute
       /\ \E playerId \in RouteIds, team \in Teams, fails \in BOOLEAN :
             PostJoin(playerId, team, fails)
    \/ /\ budget.reqs < MaxRoute
       /\ \E playerId \in RouteIds, input \in Inputs, dt \in DTs :
             PostInput(playerId, input, dt)

SpecRoute == InitFrom({Play, Shot, Celebrate}, FALSE) /\ [][NextRoute]_vars

\* C23: a request whose read of a stored room fails is not answered with
\* "Room not found", and a joinRoom whose read fails leaves the stored room
\* (score, clock, ball) as it was.
C23_ReadFailureIsNotAbsence ==
    [][(/\ budget'.reqs = budget.reqs + 1
        /\ hist'.reply.readFailed
        /\ roomStore # NoRoom)
       => /\ hist'.reply.status # "notFound"
          /\ hist'.reply.kind = "join" => roomStore' = roomStore]_vars

\* C24: an input request for a player id that is not in the room is answered
\* as not found, and its handleInput changes nothing in the store.
C24_MissingPlayerNotFound ==
    (hist.reply.kind = "input" /\ ~hist.reply.playerFound) =>
        /\ hist.reply.status = "notFound"
        /\ ~hist.reply.changed


---------------------------------------------------------------------------
\* Stored states of a match for the rules of one frame: a player beside the
\* touchline, a loose ball with players at and inside the pickup radius, and
\* slides beside the player on the ball.

SlideInput == [NoInput EXCEPT !.slide = TRUE]

\* a1 stands in the corner of the field, 6 px from two touchlines.
Edge ==
    Stored(MatchRoom(createInitialBall),
           <<Stand("h1", "home", TRUE, 50, 250, FALSE),
             Stand("a1", "away", TRUE, 30, 30, FALSE),
             Stand("h2", "home", FALSE, 690, 250, FALSE)>>)

\* The ball lies at rest in the centre; h1 stands 22 px from it, a1
\* 21.99 px and h2 21.99 px.
Reach ==
    Stored(MatchRoom(createInitialBall),
           <<Stand("h1", "home", TRUE, 400, 272, FALSE),
             [Stand("a1", "away", TRUE, 400, 250, FALSE) EXCEPT
                !.y = 250 * Unit - (22 * Unit - 1)],
             [Stand("h2", "home", FALSE, 400, 250, FALSE) EXCEPT
                !.x = 400 * Unit + (22 * Unit - 1)]>>)

\* a1 has the ball; h1 and h2 stand 36 px from a1 and have both begun a
\* slide towards it.
DoubleTackle ==
    handleInputCall(
        handleInputCall(
            Stored(MatchRoom([createInitialBall EXCEPT
                                !.x = 720 * Unit, !.y = 250 * Unit, !.ownerId = "a1"]),
                   <<Stand("h1", "home", TRUE, 710, 230, FALSE),
                     Stand("a1", "away", TRUE, 740, 250, TRUE),
                     Stand("h2", "home", FALSE, 710, 270, FALSE)>>),
            StartNow, "h1", SlideInput),
        StartNow, "h2", SlideInput)

\* h2 has the ball; its teammate h1 has begun a slide 20 px behind it, and
\* a1 is far away.
FriendlySlide ==
    handleInputCall(
        Stored(MatchRoom([createInitialBall EXCEPT
                            !.x = 420 * Unit, !.y = 250 * Unit, !.ownerId = "h2"]),
               <<Stand("h1", "home", TRUE, 380, 250, FALSE),
                 Stand("a1", "away", TRUE, 750, 250, FALSE),
                 Stand("h2", "home", FALSE, 400, 250, TRUE)>>),
        StartNow, "h1", SlideInput)

SpecField ==
    InitFrom({Edge, Reach, DoubleTackle, FriendlySlide}, FALSE) /\ [][Next]_vars

\* Whether the point lies in the part of the field players are kept to.
InField(x, y) ==
    /\ PLAYER_SIZE <= x /\ x <= FIELD_WIDTH - PLAYER_SIZE
    /\ PLAYER_SIZE <= y /\ y <= FIELD_HEIGHT - PLAYER_SIZE

\* C25: after any frame, and in the store after any tick, every player's
\* position satisfies PLAYER_SIZE <= x <= FIELD_WIDTH - PLAYER_SIZE and
\* PLAYER_SIZE <= y <= FIELD_HEIGHT - PLAYER_SIZE.
C25_PlayersInField ==
    /\ \A i \in 1..Len(playerStore) : InField(playerStore[i].x, playerStore[i].y)
    /\ AtFrameBoundary =>
         \A i \in 1..Len(ug.players) : InField(ug.players[i].x, ug.players[i].y)

\* C25 witness: a1 slid from 6 px inside the touchline towards it and a
\* frame has kept it on x = PLAYER_SIZE; it is still sliding.
C25_Witness ==
    /\ ug.pc = "frames"
    /\ ug.frame > 0
    /\ Len(ug.players) >= 2
    /\ ug.players[2].id = "a1"
    /\ ug.players[2].isSliding
    /\ ug.players[2].facingX < 0
    /\ ug.players[2].x = PLAYER_SIZE
    /\ ug.players[2].y = 30 * Unit


---------------------------------------------------------------------------
\* The pickup of one frame, read against the frame as it stood before the
\* pickup loop: f is the frame after the players and the ball have moved.

\* The players within 22 px of the ball.
InReach(f) ==
    {i \in 1..Len(f.players) :
        /\ Abs(f.players[i].x - f.room.ball.x) < 22 * Unit
        /\ Abs(f.players[i].y - f.room.ball.y) < 22 * Unit
        /\ (f.players[i].x - f.room.ball.x) * (f.players[i].x - f.room.ball.x)
             + (f.players[i].y - f.room.ball.y) * (f.players[i].y - f.room.ball.y)
           < (22 * Unit) * (22 * Unit)}

\* The players that have the ball after the pickup loop and had not before.
Gains(f, p) ==
    {i \in 1..Len(f.players) : p.players[i].hasBall /\ ~f.players[i].hasBall}

\* With the ball loose, the player that gains possession is the first in
\* order within reach; at most one gains; none gains while the ball has an
\* owner.
PickupRule(f, p) ==
    /\ Cardinality(Gains(f, p)) <= 1
    /\ f.room.ball.ownerId # NoOwner => Gains(f, p) = {}
    /\ f.room.ball.ownerId = NoOwner =>
         \A i \in 1..Len(f.players) :
            ~f.players[i].hasBall =>
               (i \in Gains(f, p) <=> (i \in InReach(f) /\ \A j \in InReach(f) : i <= j))

\* C26 as stated: in every frame the pickup follows the rule.
C26_PickupEveryFrame ==
    [][FrameStep =>
         \A f \in {FrameBall(FrameMove(Loc(ug), ug.t))} :
         \A p \in {FramePickup(f)} : PickupRule(f, p)]_vars

\* C26 amended: in every frame that reaches the pickup loop (no celebration
\* is running and the ball has not just crossed a goal line), a player
\* without the ball gains possession iff the ball is loose and it is the
\* first player in iteration order less than 22 px from the ball; at most
\* one player picks up, and none while the ball has an owner.
C26_PickupFirstInReach ==
    [][FrameStep =>
         \A f \in {FrameBall(FrameMove(Loc(ug), ug.t))} :
         \A p \in {FramePickup(f)} : ~f.skip => PickupRule(f, p)]_vars

\* C26 witness: of h1 at 22 px from the resting ball and a1 and h2 at
\* 21.99 px, a1 took the ball in the first frame.
C26_Witness ==
    /\ ug.pc = "frames"
    /\ ug.frame = 1
    /\ Len(ug.players) = 3
    /\ ug.players[1].y - ug.room.ball.y = 22 * Unit
    /\ ug.players[3].x - ug.room.ball.x = 22 * Unit - 1
    /\ ug.players[2].hasBall
    /\ ~ug.players[1].hasBall
    /\ ~ug.players[3].hasBall
    /\ ug.room.ball.ownerId = "a1"


---------------------------------------------------------------------------
ShootInput == [NoInput EXCEPT !.shoot = TRUE]

\* C27: a handleInput with shoot = true and no direction, for a player that
\* has the ball, sets the ball's velocity to the player's facing times 14
\* and clears hasBall, ball.ownerId and ball.isGrabbed; for a player without
\* the ball it changes neither the ball nor the player's hasBall.
C27_ShootFromFacing ==
    [][\A playerId \in PlayerIds :
          InputStart(playerId, ShootInput) =>
             \A room \in {getRoom(roomStore, now)} :
             \A player \in {parsePlayer(playerStore[IndexOf(playerStore, playerId)], now)} :
                IF player.hasBall
                THEN /\ hi'.room.ball.velocityX * Unit = player.facingX * 14 * Unit
                     /\ hi'.room.ball.velocityY * Unit = player.facingY * 14 * Unit
                     /\ hi'.room.ball.ownerId = NoOwner
                     /\ ~hi'.room.ball.isGrabbed
                     /\ ~hi'.player.hasBall
                ELSE /\ hi'.room.ball = room.ball
                     /\ ~hi'.player.hasBall]_vars

\* C27 witness: h2, who had the ball and faced (1, 0), has shot: the ball
\* leaves at (14, 0) without an owner, and h2 is about to be saved without
\* the ball.
C27_Witness ==
    /\ hi.pc = "savePlayer"
    /\ hi.player.id = "h2"
    /\ ~hi.player.hasBall
    /\ roomStore.ball.ownerId = "h2"
    /\ hi.player.facingX = Unit
    /\ hi.player.facingY = 0
    /\ hi.room.ball.velocityX = 14 * Unit
    /\ hi.room.ball.velocityY = 0
    /\ hi.room.ball.ownerId = NoOwner
    /\ ~hi.room.ball.isGrabbed


---------------------------------------------------------------------------
\* The tackles of one frame, read against the frame as it stood before the
\* tackle loop.

\* The sliding opponents of the t-th player within 1.8 * PLAYER_SIZE =
\* 43.2 px of it.
SlidersOn(players, t) ==
    {k \in 1..Len(players) :
        /\ players[k].isSliding
        /\ players[k].team # players[t].team
        /\ Abs(players[k].x - players[t].x) < (432 * Unit) \div 10
        /\ Abs(players[k].y - players[t].y) < (432 * Unit) \div 10
        /\ (players[k].x - players[t].x) * (players[k].x - players[t].x)
             + (players[k].y - players[t].y) * (players[k].y - players[t].y)
           < ((432 * Unit) \div 10) * ((432 * Unit) \div 10)}

\* How often the frame's tackle loop assigns the rebound velocity (lines
\* 712-713): once for every holder it dispossesses, since the first slide
\* that takes the ball clears hasBall and line 702 turns the others away.
TackleAssignments(players) == Cardinality(TackleTargets(players))

---------------------------------------------------------------------------
\* The CPU player's state machine (part_001, class CPUAI), one instance.
\* What update reads of its context are the facts below; the direction an
\* action moves in is a function of the state, the context and the draws of
\* Math.random(), and is kept as that triple.

MaxAICalls == 6      \* calls of update (SpecAI)

DIFFICULTY_PARAMS ==
    [easy   |-> [reactionDelay |-> 15, shootThreshold |-> 150, pressureDistance |-> 80],
     medium |-> [reactionDelay |-> 8, shootThreshold |-> 200, pressureDistance |-> 100],
     hard   |-> [reactionDelay |-> 3, shootThreshold |-> 250, pressureDistance |-> 120]]

Difficulties == {"easy", "medium", "hard"}

\* Contexts: the player's role and possession, who else has the ball, the
\* distances to the opponent's goal line, to the nearest opponent and to
\* the ball, in pixels, and the number of teammates.
Ctx(isGoalkeeper, hasBall, mateHasBall, oppHasBall, distToGoal, oppDist, distToBall, mates) ==
    [isGoalkeeper |-> isGoalkeeper, hasBall |-> hasBall,
     mateHasBall |-> mateHasBall, oppHasBall |-> oppHasBall,
     distToGoal |-> distToGoal, oppDist |-> oppDist, distToBall |-> distToBall,
     mates |-> mates]

AIContexts ==
    {Ctx(TRUE, FALSE, FALSE, FALSE, 700, 300, 300, 4),    \* keeper, ball loose
     Ctx(TRUE, TRUE, FALSE, FALSE, 700, 300, 10, 4),      \* keeper on the ball
     Ctx(TRUE, FALSE, FALSE, TRUE, 700, 30, 35, 4),       \* keeper, opponent on the ball
     Ctx(FALSE, TRUE, FALSE, FALSE, 100, 300, 20, 4),     \* on the ball before the goal
     Ctx(FALSE, TRUE, FALSE, FALSE, 180, 300, 20, 4),     \* on the ball, 180 px out
     Ctx(FALSE, TRUE, FALSE, FALSE, 400, 50, 20, 4),      \* on the ball, pressed
     Ctx(FALSE, TRUE, FALSE, FALSE, 400, 50, 20, 0),      \* the same, without teammates
     Ctx(FALSE, TRUE, FALSE, FALSE, 400, 90, 20, 4),      \* on the ball, opponent at 90 px
     Ctx(FALSE, FALSE, TRUE, FALSE, 400, 300, 120, 4),    \* a teammate has the ball
     Ctx(FALSE, FALSE, FALSE, TRUE, 400, 30, 35, 4),      \* an opponent has it, near
     Ctx(FALSE, FALSE, FALSE, TRUE, 400, 300, 300, 4),    \* an opponent has it, far
     Ctx(FALSE, FALSE, FALSE, FALSE, 400, 300, 180, 4),   \* ball loose, 180 px away
     Ctx(FALSE, FALSE, FALSE, FALSE, 400, 300, 200, 4)}   \* ball loose, 200 px away

NoAction == [move |-> <<>>, shoot |-> FALSE, pass |-> FALSE, slide |-> FALSE]

\* Math.floor(reactionDelay * (0.5 + Math.random() * 0.5)), for every draw.
ReactionDelays(reactionDelay) == (reactionDelay \div 2)..(reactionDelay - 1)

\* Variant of transitionTo that arms the delay on every selection.
transitionToAlways(ai, newState, n) ==
    [ai EXCEPT !.state = newState, !.stateTimer = 0, !.reactionTimer = n]

\* transitionTo: n is the delay it draws.
transitionTo(ai, newState, n) ==
    IF ai.state # newState
    THEN [ai EXCEPT !.state = newState, !.stateTimer = 0, !.reactionTimer = n]
    ELSE ai

\* Variant of TargetState that treats a goalkeeper as an outfield player.
TargetStateAnyRole(params, ctx, draw) ==
    IF ctx.hasBall
    THEN IF ctx.distToGoal < params.shootThreshold THEN "shoot"
         ELSE IF ctx.oppDist < params.pressureDistance /\ draw THEN "pass"
         ELSE "dribble"
    ELSE IF ctx.mateHasBall THEN "support_attack"
    ELSE IF ctx.oppHasBall
    THEN IF ctx.distToBall < 150 \/ draw THEN "chase_ball" ELSE "mark_player"
    ELSE IF ctx.distToBall < 200 THEN "chase_ball" ELSE "intercept"

\* Variant of TargetState that chases a loose ball only within 150 px.
TargetStateShortChase(params, ctx, draw) ==
    IF ctx.isGoalkeeper
    THEN IF ctx.hasBall THEN "pass" ELSE "defend_goal"
    ELSE IF ctx.hasBall
    THEN IF ctx.distToGoal < params.shootThreshold THEN "shoot"
         ELSE IF ctx.oppDist < params.pressureDistance /\ draw THEN "pass"
         ELSE "dribble"
    ELSE IF ctx.mateHasBall THEN "support_attack"
    ELSE IF ctx.oppHasBall
    THEN IF ctx.distToBall < 150 \/ draw THEN "chase_ball" ELSE "mark_player"
    ELSE IF ctx.distToBall < 150 THEN "chase_ball" ELSE "intercept"

\* updateState: the state it moves to.  draw tells whether its
\* Math.random() came out above the threshold it is compared with.
TargetState(params, ctx, draw) ==
    IF ctx.isGoalkeeper
    THEN IF ctx.hasBall THEN "pass" ELSE "defend_goal"
    ELSE IF ctx.hasBall
    THEN IF ctx.distToGoal < params.shootThreshold THEN "shoot"
         ELSE IF ctx.oppDist < params.pressureDistance /\ draw THEN "pass"
         ELSE "dribble"
    ELSE IF ctx.mateHasBall THEN "support_attack"
    ELSE IF ctx.oppHasBall
    THEN IF ctx.distToBall < 150 \/ draw THEN "chase_ball" ELSE "mark_player"
    ELSE IF ctx.distToBall < 200 THEN "chase_ball" ELSE "intercept"

\* Variant of executeState that shoots and passes one tick sooner.
executeStateSooner(ai, ctx, noise) ==
    [move |-> <<ai.state, ctx, noise>>,
     shoot |-> ai.state = "shoot" /\ ai.stateTimer >= 10,
     pass |-> ai.state = "pass" /\ ctx.mates > 0 /\ ai.stateTimer >= 5,
     slide |-> /\ ai.state = "chase_ball"
               /\ ctx.distToBall < 40
               /\ ctx.oppHasBall
               /\ noise = 1]

\* executeState: the action of the state.  noise stands for its draws.
\* facingGoal (line 277) is true of every player inside the field.
executeState(ai, ctx, noise) ==
    [move |-> <<ai.state, ctx, noise>>,
     shoot |-> ai.state = "shoot" /\ ai.stateTimer > 10,
     pass |-> ai.state = "pass" /\ ctx.mates > 0 /\ ai.stateTimer > 5,
     slide |-> /\ ai.state = "chase_ball"
               /\ ctx.distToBall < 40
               /\ ctx.oppHasBall
               /\ noise = 1]

\* Variant of Reacting that ends the wait one call early.
ReactingAboveOne(ai) == ai.reactionTimer > 1

\* The reaction delay is running (line 98).
Reacting(ai) == ai.reactionTimer > 0

\* update (lines 96-119).  Beside the fields of the class the record keeps
\* what the call returned, whether it evaluated the state, and for the
\* properties: the delay the last evaluation armed (0: none), the action it
\* returned, and the calls made since.
update(ai, ctx, draw, noise, n) ==
    IF Reacting(ai)
    THEN [ai EXCEPT !.reactionTimer = @ - 1,
                    !.returned = ai.lastDecision,
                    !.evaluated = FALSE,
                    !.held = @ + 1,
                    !.calls = @ + 1]
    ELSE The({[moved EXCEPT
                 !.lastDecision = action,
                 !.stateTimer = @ + 1,
                 !.returned = action,
                 !.evaluated = TRUE,
                 !.armed = IF moved.state # ai.state THEN moved.reactionTimer ELSE 0,
                 !.armedAction = action,
                 !.held = 0,
                 !.prevArmed = ai.armed,
                 !.prevHeld = ai.held,
                 !.calls = @ + 1] :
              <<moved, action>> \in
                 {<<m, executeState(m, ctx, noise)>> :
                    m \in {transitionTo(ai, TargetState(DIFFICULTY_PARAMS[ai.difficulty],
                                                        ctx, draw), n)}}})

\* The object after its construction, and objects in the middle of a
\* match: an outfield player 10 evaluated ticks into shoot, and players 5
\* evaluated ticks into pass.
AIObject(difficulty, isGoalkeeper, state, stateTimer, lastDecision) ==
    [pc |-> "ai", difficulty |-> difficulty, isGoalkeeper |-> isGoalkeeper,
     state |-> state, stateTimer |-> stateTimer, reactionTimer |-> 0,
     lastDecision |-> lastDecision,
     returned |-> lastDecision, evaluated |-> stateTimer > 0,
     armed |-> 0, armedAction |-> lastDecision, held |-> 0,
     prevArmed |-> 0, prevHeld |-> 0, calls |-> 0]

AIObjects ==
    {AIObject(difficulty, isGoalkeeper, "idle", 0, NoAction) :
        difficulty \in Difficulties, isGoalkeeper \in BOOLEAN}
    \cup
    {AIObject(difficulty, FALSE, "shoot", 10,
              [NoAction EXCEPT !.move = <<"shoot", ctx, 0>>]) :
        difficulty \in Difficulties,
        ctx \in {c \in AIContexts : ~c.isGoalkeeper /\ c.hasBall /\ c.distToGoal = 100}}
    \cup
    {AIObject(difficulty, ctx.isGoalkeeper, "pass", 5,
              [NoAction EXCEPT !.move = <<"pass", ctx, 0>>]) :
        difficulty \in Difficulties,
        ctx \in {c \in AIContexts :
                  c.hasBall /\ c.mates > 0 /\ (c.isGoalkeeper \/ c.oppDist = 50)}}

InitAI ==
    /\ now = StartNow
    /\ roomStore = NoRoom
    /\ playerStore = <<>>
    /\ ug = IdleUG(-1, FALSE)
    /\ hi = IdleHI
    /\ lv = IdleLV
    /\ budget = [reqs |-> 0, ticks |-> 0]
    /\ hist = NoHist(NoRoom, FALSE)
    /\ client \in AIObjects

\* The game loop calls update with the context of the frame; a player's
\* role is the one of its formation slot (solo-game-canvas.tsx lines 69-75).
AIUpdate(ctx) ==
    /\ client.pc = "ai"
    /\ client.calls < MaxAICalls
    /\ ctx.isGoalkeeper = client.isGoalkeeper
    /\ \E draw \in BOOLEAN, noise \in {0, 1},
          n \in ReactionDelays(DIFFICULTY_PARAMS[client.difficulty].reactionDelay) :
          client' = update(client, ctx, draw, noise, n)
    /\ UNCHANGED <<now, roomStore, playerStore, ug, hi, lv, budget, hist>>

NextAI == \E ctx \in AIContexts : AIUpdate(ctx)

SpecAI == InitAI /\ [][NextAI]_vars

\* C28: after an update in which the state changed and a reaction delay of
\* n calls was armed, each of the next n calls returns the action of that
\* update without evaluating the state or advancing stateTimer, and the
\* call after them evaluates again.
C28_ReactionDelayHolds ==
    [][(client.pc = "ai" /\ client.armed > 0) =>
          /\ client.held < client.armed =>
                /\ ~client'.evaluated
                /\ client'.returned = client.armedAction
                /\ client'.state = client.state
                /\ client'.stateTimer = client.stateTimer
          /\ client.held = client.armed => client'.evaluated]_vars

\* C28 witness: an update armed a delay of 2 calls, two calls returned its
\* action, and the third has evaluated the state again.
C28_Witness ==
    /\ client.pc = "ai"
    /\ client.evaluated
    /\ client.prevArmed = 2
    /\ client.prevHeld = 2
    /\ client.calls >= 4


---------------------------------------------------------------------------
\* updateGame polled at a fixed interval, in time relative to lastTick: what
\* the head of updateGame (lines 579-590) does with the time of the call,
\* and whether any call has run a frame.

MaxInterval == 24    \* longest polling interval, ms (SpecFixed)

PollIntervals == MIN_DELTA_MS..MaxInterval

\* The polling starts up to 15 ms after createRoom set lastTick (line 286).
InitFixed ==
    /\ now = StartNow
    /\ roomStore = NoRoom
    /\ playerStore = <<>>
    /\ ug = IdleUG(-1, FALSE)
    /\ hi = IdleHI
    /\ lv = IdleLV
    /\ budget = [reqs |-> 0, ticks |-> 0]
    /\ hist = NoHist(NoRoom, FALSE)
    /\ \E interval \in PollIntervals, offset \in 0..(MIN_DELTA_MS - 1) :
          client = [pc |-> "fixed", interval |-> interval,
                    sinceTick |-> offset,      \* ms from lastTick to the last call
                    frames |-> 0,              \* deltaFrames of the last call
                    moved |-> FALSE,           \* the last call wrote lastTick
                    ran |-> FALSE,             \* some call ran a frame
                    odd |-> FALSE]             \* parity of the calls made

\* One call, interval ms after the one before: the guard of line 583, then
\* deltaFrames and lastTick = now (lines 585-586), saved at line 728.
FixedPoll ==
    /\ client.pc = "fixed"
    /\ \E deltaMs \in {client.sinceTick + client.interval} :
          client' = IF TooSoon(deltaMs)
                    THEN [client EXCEPT !.sinceTick = deltaMs,
                                        !.frames = 0,
                                        !.moved = FALSE,
                                        !.odd = ~@]
                    ELSE [client EXCEPT !.sinceTick = 0,
                                        !.frames = DeltaFrames(deltaMs),
                                        !.moved = TRUE,
                                        !.ran = @ \/ DeltaFrames(deltaMs) >= 1,
                                        !.odd = ~@]
    /\ UNCHANGED <<now, roomStore, playerStore, ug, hi, lv, budget, hist>>

NextFixed == FixedPoll

\* The clients keep polling.
SpecFixed == InitFixed /\ [][NextFixed]_vars /\ WF_vars(NextFixed)

\* C29: polled at a fixed interval of 16 ms or more, some call eventually
\* runs at least one frame.
C29_PollingRunsAFrame == <>(client.pc = "fixed" /\ client.ran)


---------------------------------------------------------------------------
\* The frame of a goal, read against the frame as it stood after the
\* players moved and the ball was put at the holder's feet.

\* Past a goal line and between the posts.
InGoalMouth(x, y) ==
    /\ x < 25 * Unit \/ x > FIELD_WIDTH - 25 * Unit
    /\ y > 175 * Unit
    /\ y < 325 * Unit

\* C31: in a frame that moves a loose ball, the ball scores iff its new
\* position is past a goal line inside the goal mouth; the frame of a goal
\* then ends there: the ball keeps the position and the velocity of the
\* physics step (no side-wall reflection), stays loose, and no player's
\* hasBall changes (no pickup, no tackle).
C31_GoalEndsFrame ==
    [][FrameStep =>
         \A m \in {FrameMove(Loc(ug), ug.t)} :
            (~m.skip /\ m.room.ball.ownerId = NoOwner) =>
               IF InGoalMouth(m.room.ball.x + m.room.ball.velocityX,
                              m.room.ball.y + m.room.ball.velocityY)
               THEN /\ ug'.room.score.home + ug'.room.score.away
                         = ug.room.score.home + ug.room.score.away + 1
                    /\ ug'.room.goalCelebration = CELEBRATION
                    /\ ug'.room.ball.x = m.room.ball.x + m.room.ball.velocityX
                    /\ ug'.room.ball.velocityX = MulDiv(m.room.ball.velocityX, 98, 100)
                    /\ ug'.room.ball.ownerId = NoOwner
                    /\ \A i \in 1..Len(m.players) :
                          ug'.players[i].hasBall = m.players[i].hasBall
               ELSE ug'.room.score = ug.room.score]_vars

\* C31 witness: the ball has just scored with a player that has no ball
\* within pickup reach of it; the ball is still loose.
C31_Witness ==
    /\ ug.pc = "frames"
    /\ ug.frame > 0
    /\ ug.room.goalCelebration = CELEBRATION
    /\ ug.room.ball.ownerId = NoOwner
    /\ InReach(Loc(ug)) # {}
    /\ \A i \in InReach(Loc(ug)) : ~ug.players[i].hasBall


---------------------------------------------------------------------------
\* Slides: the requests of a client whose keys are down together (the
\* client sends every flag in one input, game-canvas.tsx lines 196-199), on
\* stored states with a slide about to end.

\* h2 has the ball in midfield; its teammate h1 began a slide 23 frames
\* ago, far from everyone.
LateSlide ==
    Stored(MatchRoom([createInitialBall EXCEPT
                        !.x = 420 * Unit, !.y = 250 * Unit, !.ownerId = "h2"]),
           <<[Stand("h1", "home", TRUE, 200, 100, FALSE) EXCEPT
                !.isSliding = TRUE, !.slideTimer = 2],
             Stand("a1", "away", TRUE, 750, 250, FALSE),
             Stand("h2", "home", FALSE, 400, 250, TRUE)>>)

\* LateSlide with the celebration of a goal about to end.
LateSlideCelebrated == [LateSlide EXCEPT !.room.goalCelebration = 2]

SlideInputs == {SlideInput,
                [NoInput EXCEPT !.shoot = TRUE, !.slide = TRUE],
                [NoInput EXCEPT !.pass = TRUE, !.slide = TRUE],
                [NoInput EXCEPT !.dy = -1]}

NextSlide ==
    \/ /\ AllIdle
       /\ budget.reqs < MaxReq
       /\ \E playerId \in PlayerIds, input \in SlideInputs : InputStart(playerId, input)
    \/ /\ AllIdle
       /\ budget.ticks < MaxTicks
       /\ \E dt \in DTs : UpdateStart(dt)
    \/ InputSavePlayer
    \/ InputSaveRoom
    \/ UpdateFrame
    \/ UpdateAfterLoop
    \/ UpdateSavePlayer
    \/ UpdateSaveRoom

SpecSlide == InitFrom({LateSlide, LateSlideCelebrated, Play}, FALSE) /\ [][NextSlide]_vars

\* What a frame does to the slide of the player p, q being the player after
\* the frame: in a frame of the celebration nothing, otherwise the timer of
\* a sliding player goes down by one and the slide ends when it reaches 0.
SlideFrame(celebrating, p, q) ==
    IF celebrating \/ ~p.isSliding
    THEN q.isSliding = p.isSliding /\ q.slideTimer = p.slideTimer
    ELSE q.slideTimer = p.slideTimer - 1 /\ (q.isSliding <=> p.slideTimer - 1 > 0)

\* What a request does to the slide of the player p, q being the player the
\* request saves and held telling whether p counts as holding the ball:
\* a slide request of a player that neither slides nor holds the ball
\* starts a slide of SLIDE_DURATION frames; every other request leaves
\* isSliding and slideTimer alone.
SlideRequest(input, held, p, q) ==
    IF input.slide /\ ~p.isSliding /\ ~held
    THEN q.isSliding /\ q.slideTimer = 25
    ELSE q.isSliding = p.isSliding /\ q.slideTimer = p.slideTimer

\* The steps of requests and frames, checked with the two rules; held(p,
\* input, players) tells whether the player counts as holding the ball.
SlideSteps(held(_, _, _)) ==
    /\ \A playerId \in PlayerIds, input \in SlideInputs :
          InputStart(playerId, input) =>
             \A players \in {getPlayers(playerStore, now)} :
             \A p \in {players[IndexOf(players, playerId)]} :
                SlideRequest(input, held(p, input, players), p, hi'.player)
    /\ FrameStep =>
          \A i \in 1..Len(ug.players) :
             SlideFrame(Celebrating(ug.room), ug.players[i], ug'.players[i])

HoldsAtRequest(p, input, players) == p.hasBall

\* The player still holds the ball when handleInput comes to the slide: it
\* held it and the same request neither shot nor passed it.
HoldsAtSlide(p, input, players) ==
    /\ p.hasBall
    /\ ~input.shoot
    /\ ~(input.pass /\ \E i \in 1..Len(players) :
                           players[i].id # p.id /\ players[i].team = p.team)

\* C32 as stated: a slide request is ignored while the player slides or
\* holds the ball; a slide that starts sets slideTimer = 25; each frame
\* outside the celebration takes one off the timer and the slide ends at 0;
\* no request changes the slide of a sliding player.
C32_SlideAsStated == [][SlideSteps(HoldsAtRequest)]_vars

\* C32 amended: as stated, except that the ball counts as held only if the
\* same request has not shot or passed it before handleInput comes to the
\* slide: a request with shoot (or pass, with a teammate in the room) and
\* slide from the player on the ball releases the ball and starts a slide.
C32_SlideAfterRelease == [][SlideSteps(HoldsAtSlide)]_vars

\* C32 witness: h1, with 2 frames of its slide left, sent a request that
\* left the slide alone, and the slide ended in the second frame of the
\* next tick.
C32_Witness ==
    /\ ug.pc = "frames"
    /\ ug.frame = 2
    /\ budget.reqs > 0
    /\ Len(ug.players) = 3
    /\ ug.players[1].id = "h1"
    /\ ~ug.players[1].isSliding
    /\ ug.players[1].slideTimer = 0
    /\ ug.room.goalCelebration = 0
    /\ ~ug.needsReset
    /\ playerStore[1].isSliding
    /\ playerStore[1].slideTimer = 2
    /\ playerStore[1].lastUpdate > StartNow


---------------------------------------------------------------------------
GRAB_DURATION == 60
GrabInput == [NoInput EXCEPT !.grab = TRUE]

\* The ball is less than 2.5 x PLAYER_SIZE = 60 px from the player.
InGrabReach(player, ball) ==
    /\ Abs(player.x - ball.x) < 60 * Unit
    /\ Abs(player.y - ball.y) < 60 * Unit
    /\ (player.x - ball.x) * (player.x - ball.x)
         + (player.y - ball.y) * (player.y - ball.y)
       < (60 * Unit) * (60 * Unit)

\* C33: a grab request of a goalkeeper within the grab radius of a ball
\* without owner sets hasBall, ball.ownerId = its id, ball.isGrabbed and
\* grabTimer = GRAB_DURATION; any other grab request changes neither the
\* ball nor the player's hasBall and grabTimer.
C33_GrabSetsHold ==
    [][\A playerId \in PlayerIds :
          InputStart(playerId, GrabInput) =>
             \A room \in {getRoom(roomStore, now)} :
             \A player \in {parsePlayer(playerStore[IndexOf(playerStore, playerId)], now)} :
                IF /\ player.isGoalkeeper
                   /\ room.ball.ownerId = NoOwner
                   /\ InGrabReach(player, room.ball)
                THEN /\ hi'.player.hasBall
                     /\ hi'.room.ball.ownerId = playerId
                     /\ hi'.room.ball.isGrabbed
                     /\ hi'.player.grabTimer = GRAB_DURATION
                ELSE /\ hi'.room.ball = room.ball
                     /\ hi'.player.hasBall = player.hasBall
                     /\ hi'.player.grabTimer = player.grabTimer]_vars


\* C34: for a goalkeeper, the state after an evaluating update is pass if
\* the context had it on the ball and defend_goal otherwise, and no action
\* update returns, computed or replayed, has shoot or slide set.
C34_KeeperPassesOrDefends ==
    (client.pc = "ai" /\ client.isGoalkeeper /\ client.calls > 0) =>
        /\ client.evaluated =>
              client.state = IF client.returned.move[2].hasBall
                             THEN "pass" ELSE "defend_goal"
        /\ ~client.returned.shoot
        /\ ~client.returned.slide

\* C34 witness: a goalkeeper moved to defend_goal with an opponent on the
\* ball within 40 px of it, and update has replayed the action of that call.
C34_Witness ==
    /\ client.pc = "ai"
    /\ client.isGoalkeeper
    /\ client.state = "defend_goal"
    /\ ~client.evaluated
    /\ client.held >= 1
    /\ client.returned.move[1] = "defend_goal"
    /\ client.returned.move[2].oppHasBall
    /\ client.returned.move[2].distToBall < 40
    /\ client.calls >= 3


\* The shootThreshold of the difficulties, in pixels.
ShootWithin(difficulty) ==
    IF difficulty = "easy" THEN 150 ELSE IF difficulty = "medium" THEN 200 ELSE 250

\* C35: for an outfield player, the state after an evaluating update is
\* shoot, pass or dribble when the context had the player on the ball
\* (shoot iff its distance to the opponent's goal line is below
\* shootThreshold), support_attack when a teammate had it, chase_ball or
\* mark_player when an opponent had it, chase_ball or intercept when the
\* ball was loose (chase_ball iff the ball is less than 200 px away); the
\* state is never attack, and idle only before the first evaluation.
C35_OutfieldStates ==
    (client.pc = "ai" /\ ~client.isGoalkeeper) =>
        /\ client.state # "attack"
        /\ client.state = "idle" => client.stateTimer = 0 /\ ~client.evaluated
        /\ (client.evaluated /\ client.calls > 0) =>
             \A ctx \in {client.returned.move[2]} :
                IF ctx.hasBall
                THEN /\ client.state \in {"shoot", "pass", "dribble"}
                     /\ client.state = "shoot" <=>
                           ctx.distToGoal < ShootWithin(client.difficulty)
                ELSE IF ctx.mateHasBall THEN client.state = "support_attack"
                ELSE IF ctx.oppHasBall
                THEN client.state \in {"chase_ball", "mark_player"}
                ELSE /\ client.state \in {"chase_ball", "intercept"}
                     /\ client.state = "chase_ball" <=> ctx.distToBall < 200

\* C35 witness: an outfield player of medium difficulty, 180 px from the
\* goal line with the ball, has moved to shoot, which an easy one does not
\* at that distance.
C35_Witness ==
    /\ client.pc = "ai"
    /\ ~client.isGoalkeeper
    /\ client.difficulty = "medium"
    /\ client.evaluated
    /\ client.calls > 0
    /\ client.state = "shoot"
    /\ client.returned.move[2].distToGoal = 180


\* The reactionDelay of the difficulties, in calls.
BaseDelay(difficulty) ==
    IF difficulty = "easy" THEN 15 ELSE IF difficulty = "medium" THEN 8 ELSE 3

\* C36: an evaluating update arms a reaction delay exactly when it changes
\* the state: stateTimer then restarts (it is 1 after the update's own
\* increment) and floor(reactionDelay / 2) <= reactionTimer <=
\* reactionDelay; an update that selects the state the AI is in leaves
\* reactionTimer at 0 and adds one to stateTimer.
C36_DelayArmedOnChange ==
    [][(client.pc = "ai" /\ client'.evaluated /\ client'.calls = client.calls + 1) =>
          IF client'.state # client.state
          THEN /\ client'.stateTimer = 1
               /\ BaseDelay(client.difficulty) \div 2 <= client'.reactionTimer
               /\ client'.reactionTimer <= BaseDelay(client.difficulty)
               /\ client'.reactionTimer > 0
          ELSE /\ client'.stateTimer = client.stateTimer + 1
               /\ client'.reactionTimer = 0
               /\ client.reactionTimer = 0]_vars

\* C36 witness: an easy AI changed state and armed 14 calls, the longest
\* delay its draw can give.
C36_Witness ==
    /\ client.pc = "ai"
    /\ client.difficulty = "easy"
    /\ client.evaluated
    /\ client.calls > 0
    /\ client.stateTimer = 1
    /\ client.reactionTimer = 14
    /\ client.armed = 14


\* C37: update returns shoot = true only from an evaluation in state shoot
\* that found more than 10 evaluated ticks spent in the state, and pass =
\* true only from an evaluation in state pass that found more than 5 and a
\* context with a teammate; a call that replays the cached action leaves
\* stateTimer alone and returns neither shoot nor pass.
C37_ShootAndPassAfterDwell ==
    [][(client.pc = "ai" /\ client'.calls = client.calls + 1) =>
          /\ client'.returned.shoot =>
                /\ client'.evaluated
                /\ client'.state = "shoot"
                /\ client.state = "shoot"
                /\ client.stateTimer > 10
          /\ client'.returned.pass =>
                /\ client'.evaluated
                /\ client'.state = "pass"
                /\ client.state = "pass"
                /\ client.stateTimer > 5
                /\ client'.returned.move[2].mates >= 1
          /\ ~client'.evaluated =>
                /\ client'.stateTimer = client.stateTimer
                /\ ~client'.returned.shoot
                /\ ~client'.returned.pass]_vars

\* C37 witness: an AI that had spent 10 evaluated ticks in shoot returned
\* shoot = false on the next evaluation and shoot = true on the one after.
C37_Witness ==
    /\ client.pc = "ai"
    /\ client.calls = 2
    /\ client.state = "shoot"
    /\ client.stateTimer = 12
    /\ client.evaluated
    /\ client.returned.shoot


---------------------------------------------------------------------------
\* The ball names an owner iff a player of the list has the ball, and the
\* owner is then that player.
OwnerAgrees(room, players) ==
    room # NoRoom =>
       /\ room.ball.ownerId # NoOwner => \E i \in Holders(players) :
                                            players[i].id = room.ball.ownerId
       /\ \A i \in Holders(players) : room.ball.ownerId = players[i].id

\* Stored states in which the ball is held, loose, grabbed next, tackled
\* next, brought back by a kickoff or left by a removed player, under the
\* requests of Next.
SpecPossession ==
    InitFrom({Play, Cleared, Celebrate, Inactive, DoubleTackle}, FALSE) /\ [][Next]_vars

\* C38: with requests run one at a time, at every tick boundary
\* ball.ownerId is non-null iff some player has hasBall = true, and it is
\* then that player's id: in the store between requests, and in the running
\* updateGame call between frames.
C38_OwnerIffHolder ==
    /\ AllIdle => OwnerAgrees(roomStore, playerStore)
    /\ AtFrameBoundary => OwnerAgrees(ug.room, ug.players)

\* C38 witness: the slides of h1 and h2 took the ball from a1 in a frame of
\* the running tick: the ball has no owner and no player has it, while the
\* store still holds a1 as its owner.
C38_Witness ==
    /\ ug.pc = "frames"
    /\ ug.frame > 0
    /\ ug.room.ball.ownerId = NoOwner
    /\ Holders(ug.players) = {}
    /\ \E i \in 1..Len(ug.players) : ug.players[i].isSliding
    /\ roomStore.ball.ownerId = "a1"
    /\ \E i \in Holders(playerStore) : playerStore[i].id = "a1"


---------------------------------------------------------------------------
\* The ball carried past a goal line.

\* h2 dribbles 30 px from the away goal line, facing it: the ball at its
\* feet is 10 px from the line, inside the goal mouth.
Carry ==
    Stored(MatchRoom([createInitialBall EXCEPT
                        !.x = 790 * Unit, !.y = 250 * Unit, !.ownerId = "h2"]),
           <<Stand("h1", "home", TRUE, 50, 250, FALSE),
             Stand("a1", "away", TRUE, 700, 100, FALSE),
             Stand("h2", "home", FALSE, 770, 250, TRUE)>>)

\* The away goalkeeper a1 stands on the touchline of its own goal with the
\* ball in its hands.
Hold ==
    Stored(MatchRoom([createInitialBall EXCEPT
                        !.x = 776 * Unit, !.y = 226 * Unit,
                        !.ownerId = "a1", !.isGrabbed = TRUE]),
           <<Stand("h1", "home", TRUE, 50, 250, FALSE),
             Stand("a1", "away", TRUE, 776, 250, TRUE),
             Stand("h2", "home", FALSE, 400, 250, FALSE)>>)

SpecCarry == InitFrom({Carry, Hold}, FALSE) /\ [][Next]_vars

\* C39: a frame changes a score only if the ball had no owner and no player
\* had the ball when the frame began: a ball a player carries, at its feet
\* or in its hands, does not score, wherever it is.
C39_CarriedBallNeverScores ==
    [][(FrameStep /\ ug'.room.score # ug.room.score) =>
          /\ ug.room.ball.ownerId = NoOwner
          /\ Holders(ug.players) = {}]_vars

\* C39 witness: after a frame of the running tick the ball is still at the
\* feet of h2 or in the hands of a1, past the away goal line and between
\* the posts, and nobody has scored.
C39_Witness ==
    /\ ug.pc = "frames"
    /\ ug.frame > 0
    /\ ug.room.ball.ownerId \in {"h2", "a1"}
    /\ Holders(ug.players) # {}
    /\ ug.room.ball.x > FIELD_WIDTH - 25 * Unit
    /\ ug.room.ball.y > 175 * Unit
    /\ ug.room.ball.y < 325 * Unit
    /\ ug.room.score.home = 0
    /\ ug.room.score.away = 0
    /\ ug.room.goalCelebration = 0


---------------------------------------------------------------------------
\* Joins of players that are in the room, between polls of the state.

NextRejoin ==
    \/ /\ budget.reqs < MaxJoins
       /\ \E dt \in DTs : GetState(dt, FALSE)
    \/ /\ budget.reqs < MaxJoins
       /\ \E playerId \in JoinIds, team \in Teams : PostJoin(playerId, team, FALSE)

SpecRejoin == InitFrom({Crowd, Play}, FALSE) /\ [][NextRejoin]_vars

\* C40: a joinRoom with the id of a player that is in the room succeeds,
\* whatever team it asks for and even if that team is full; it leaves the
\* room and every other player as stored, adds no record, and changes
\* nothing of the player's record but lastUpdate.
C40_RejoinKeepsPlayer ==
    [][\A playerId \in JoinIds, team \in Teams :
          (PostJoin(playerId, team, FALSE) /\ playerId \in Ids(playerStore)) =>
             /\ hist'.reply.status = "success"
             /\ roomStore' = roomStore
             /\ Len(playerStore') = Len(playerStore)
             /\ \A i \in 1..Len(playerStore) :
                   playerStore'[i] = IF playerStore[i].id = playerId
                                     THEN [playerStore[i] EXCEPT !.lastUpdate = now]
                                     ELSE playerStore[i]]_vars

\* C40 witness: h5 took the last home place, the state was polled, and h4
\* then joined again: the home team still has 5 players and h4's record is
\* the later one.
C40_Witness ==
    /\ hist.reply.kind = "join"
    /\ hist.reply.status = "success"
    /\ budget.reqs = 3
    /\ TeamCount(playerStore, "home") = 5
    /\ \E i, j \in 1..Len(playerStore) :
          /\ playerStore[i].id = "h4"
          /\ playerStore[j].id = "h5"
          /\ playerStore[j].lastUpdate < playerStore[i].lastUpdate

====
